---- MODULE Spec2Model ----
(***************************************************************************)
(* Toshiba TC358768 DPI-to-DSI bridge driver (src/unnamed/part_000):       *)
(* the register access layer, the PLL solver, and the enable / disable     *)
(* sequencer.                                                              *)
(*                                                                         *)
(* C's u32 / u64 values do not fit in the checker's integers, so a wide    *)
(* value is a tuple of four 16-bit limbs, least significant first          *)
(* (<<l0, l1, l2, l3>> stands for l0 + l1*2^16 + l2*2^32 + l3*2^48).       *)
(* A u32 is a wide value whose two upper limbs are 0.  Multipliers and     *)
(* divisors that the driver keeps small (lane counts, fbd+1, prd+1, 2^frs) *)
(* are plain integers below 2^15.                                          *)
(***************************************************************************)
EXTENDS Integers, Sequences, FiniteSets, TLC

\* ------------------------------------------------------------------------
\* u32 / u64 arithmetic on limbs
\* ------------------------------------------------------------------------
B16 == 2^16

\* (u64)i for a plain integer 0 <= i < 2^31
FromInt(i) == <<i % B16, i \div B16, 0, 0>>

\* the plain integer of a wide value below 2^31
ToInt(n) == n[1] + n[2] * B16

ZERO == <<0, 0, 0, 0>>

\* UINT_MAX, the u32 0xFFFFFFFF
UINT_MAX == <<B16 - 1, B16 - 1, 0, 0>>

\* (u32)n: the low 32 bits
Lo32(n) == <<n[1], n[2], 0, 0>>

\* n * m in u64 arithmetic (wraps at 2^64), 0 <= m < 2^15
MulS(n, m) ==
    LET p1 == n[1] * m
        p2 == n[2] * m + p1 \div B16
        p3 == n[3] * m + p2 \div B16
        p4 == n[4] * m + p3 \div B16
    IN  <<p1 % B16, p2 % B16, p3 % B16, p4 % B16>>

\* div_u64(n, d): truncating division of a u64 by 0 < d < 2^15
DivS(n, d) ==
    LET t4 == n[4]
        t3 == (t4 % d) * B16 + n[3]
        t2 == (t3 % d) * B16 + n[2]
        t1 == (t2 % d) * B16 + n[1]
    IN  <<t1 \div d, t2 \div d, t3 \div d, t4 \div d>>

\* a < b on wide values
Lt(a, b) ==
    \/ a[4] < b[4]
    \/ a[4] = b[4] /\ a[3] < b[3]
    \/ a[4] = b[4] /\ a[3] = b[3] /\ a[2] < b[2]
    \/ a[4] = b[4] /\ a[3] = b[3] /\ a[2] = b[2] /\ a[1] < b[1]

Ge(a, b) == ~Lt(a, b)

\* a - b for a >= b
Sub(a, b) ==
    LET d1 == a[1] - b[1]
        c1 == IF d1 < 0 THEN 1 ELSE 0
        d2 == a[2] - b[2] - c1
        c2 == IF d2 < 0 THEN 1 ELSE 0
        d3 == a[3] - b[3] - c2
        c3 == IF d3 < 0 THEN 1 ELSE 0
        d4 == a[4] - b[4] - c3
    IN  <<d1 + c1 * B16, d2 + c2 * B16, d3 + c3 * B16, d4>>

\* max(a, b) - min(a, b)
AbsDiff(a, b) == IF Lt(a, b) THEN Sub(b, a) ELSE Sub(a, b)

\* n + s in u64 arithmetic, 0 <= s < 2^15
AddS(n, s) ==
    LET p1 == n[1] + s
        p2 == n[2] + p1 \div B16
        p3 == n[3] + p2 \div B16
        p4 == n[4] + p3 \div B16
    IN  <<p1 % B16, p2 % B16, p3 % B16, p4 % B16>>

\* bit i (0..63) of a wide value
BitW(n, i) == (n[i \div 16 + 1] \div 2^(i % 16)) % 2

\* one step of binary long division: bring down bit i of n
DivStep(n, d, i, qr) ==
    LET q2 == MulS(qr[1], 2)
        r2 == AddS(MulS(qr[2], 2), BitW(n, i))
    IN  IF Ge(r2, d) THEN <<AddS(q2, 1), Sub(r2, d)>> ELSE <<q2, r2>>

\* the steps for bits hi down to lo of n, in that order (the range is
\* folded by halves; the remainder stays below d, and testing it completes
\* the upper half before the lower half starts)
RECURSIVE DivLoop(_, _, _, _, _)
DivLoop(n, d, hi, lo, qr) ==
    IF hi = lo THEN DivStep(n, d, hi, qr)
    ELSE LET mid   == (hi + lo + 1) \div 2
             upper == DivLoop(n, d, hi, mid, qr)
         IN  IF Lt(upper[2], d) THEN DivLoop(n, d, mid - 1, lo, upper)
             ELSE upper

\* div_u64(n, d) for a wide divisor d > 0
DivW(n, d) == DivLoop(n, d, 63, 0, <<ZERO, ZERO>>)[1]

\* a & b, a | b on naturals
RECURSIVE BitAnd(_, _)
BitAnd(a, b) ==
    IF a = 0 \/ b = 0 THEN 0
    ELSE (a % 2) * (b % 2) + 2 * BitAnd(a \div 2, b \div 2)

RECURSIVE BitOr(_, _)
BitOr(a, b) ==
    IF a = 0 THEN b
    ELSE IF b = 0 THEN a
    ELSE (IF a % 2 = 1 \/ b % 2 = 1 THEN 1 ELSE 0)
         + 2 * BitOr(a \div 2, b \div 2)

\* a & b, a | b, ~a on u32 values
AndW(a, b) == <<BitAnd(a[1], b[1]), BitAnd(a[2], b[2]), 0, 0>>

OrW(a, b) == <<BitOr(a[1], b[1]), BitOr(a[2], b[2]), 0, 0>>

NotW(a) == <<B16 - 1 - a[1], B16 - 1 - a[2], 0, 0>>

\* a << k in 32 bits, 0 <= k <= 31
ShlW(a, k) ==
    LET k1 == IF k > 14 THEN 14 ELSE k
        k2 == IF k - k1 > 14 THEN 14 ELSE k - k1
        k3 == k - k1 - k2
    IN  Lo32(MulS(MulS(MulS(a, 2^k1), 2^k2), 2^k3))

\* bit k (0..15) of a 16-bit value
Bit(v, k) == (v \div 2^k) % 2

\* ------------------------------------------------------------------------
\* PLL solver
\* ------------------------------------------------------------------------

\* const unsigned frs_limits[] (indices 1..5 for the C indices 0..4)
frs_limits == <<1000000000, 500000000, 250000000, 125000000, 62500000>>

\* for (prd = 0; prd < 16; ++prd)
PRD_COUNT == 16

\* for (fbd = 0; fbd < 512; ++fbd)
FBD_COUNT == 512

\* tc358768_pclk_to_pll: byteclk = (u32)div_u64((u64)pixelclock * dpi_ndl,
\* 8 * dsi_ndl); return byteclk * 4 * 2 (u32 arithmetic)
tc358768_pclk_to_pll(d) ==
    LET byteclk == Lo32(DivS(MulS(d.pixelclock, d.dpi_ndl), 8 * d.dsi_ndl))
    IN  Lo32(MulS(Lo32(MulS(byteclk, 4)), 2))

\* mutant: the byte clock is taken as pll / 4
M_pll_to_pclk_div4(d, pll) ==
    LET byteclk == DivS(pll, 4)
    IN  Lo32(DivS(MulS(MulS(byteclk, 8), d.dsi_ndl), d.dpi_ndl))

\* tc358768_pll_to_pclk: byteclk = pll / 2 / 4;
\* return (u32)div_u64((u64)byteclk * 8 * dsi_ndl, dpi_ndl)
tc358768_pll_to_pclk(d, pll) ==
    LET byteclk == DivS(DivS(pll, 2), 4)
    IN  Lo32(DivS(MulS(MulS(byteclk, 8), d.dsi_ndl), d.dpi_ndl))

\* mutant: a target outside every bracket is given the nearest bracket
M_FrsSelect_clamp(target_pll, i) ==
    IF Ge(target_pll, FromInt(frs_limits[1])) THEN 0
    ELSE IF Lt(target_pll, FromInt(frs_limits[5])) THEN 3
    ELSE CHOOSE k \in 0 .. 3 :
            /\ Lt(target_pll, FromInt(frs_limits[k + 1]))
            /\ Ge(target_pll, FromInt(frs_limits[k + 2]))

\* mutant: the bracket test is target_pll <= high && target_pll > low
M_FrsSelect_upper(target_pll, i) ==
    IF \E k \in 0 .. 3 :
          /\ ~Lt(FromInt(frs_limits[k + 1]), target_pll)
          /\ Lt(FromInt(frs_limits[k + 2]), target_pll)
    THEN CHOOSE k \in 0 .. 3 :
            /\ ~Lt(FromInt(frs_limits[k + 1]), target_pll)
            /\ Lt(FromInt(frs_limits[k + 2]), target_pll)
    ELSE -1

\* the bracket loop of tc358768_calc_pll: the first i in 0..3 with
\* target_pll < frs_limits[i] && target_pll >= frs_limits[i + 1];
\* -1 stands for frs == UINT_MAX (no bracket)
RECURSIVE FrsSelect(_, _)
FrsSelect(target_pll, i) ==
    IF i >= Len(frs_limits) - 1 THEN -1
    ELSE IF /\ Lt(target_pll, FromInt(frs_limits[i + 1]))
            /\ Ge(target_pll, FromInt(frs_limits[i + 2]))
         THEN i
         ELSE FrsSelect(target_pll, i + 1)

\* best_pll = best_prd = best_fbd = 0; best_diff = UINT_MAX
BestInit == [diff |-> UINT_MAX, pll |-> ZERO, prd |-> 0, fbd |-> 0]

\* pll = (u32)div_u64((u64)refclk * (fbd + 1), divisor)
PllCandidate(refclk, prd, fbd, frs) ==
    Lo32(DivS(MulS(refclk, fbd + 1), (prd + 1) * 2^frs))

\* mutant: candidates outside the bracket are not discarded
M_FbdBody_no_bracket(d, target_pll, frs, prd, fbd, best) ==
    IF best.diff = ZERO THEN best
    ELSE
    LET pll  == PllCandidate(d.refclk, prd, fbd, frs)
        diff == AbsDiff(pll, target_pll)
    IN  IF Lt(diff, best.diff)
        THEN [diff |-> diff, pll |-> pll, prd |-> prd, fbd |-> fbd]
        ELSE best

\* one pass through the body of the inner loop; an iteration the C code
\* never runs because of `if (best_diff == 0) break` leaves best unchanged
FbdBody(d, target_pll, frs, prd, fbd, best) ==
    IF best.diff = ZERO THEN best
    ELSE
    LET pll     == PllCandidate(d.refclk, prd, fbd, frs)
        max_pll == FromInt(frs_limits[frs + 1])
        min_pll == FromInt(frs_limits[frs + 2])
        diff    == AbsDiff(pll, target_pll)
    IN  IF Ge(pll, max_pll) \/ Lt(pll, min_pll) THEN best
        ELSE IF Lt(diff, best.diff)
             THEN [diff |-> diff, pll |-> pll, prd |-> prd, fbd |-> fbd]
             ELSE best

\* the inner loop over fbd = lo .. hi in ascending order, left at the first
\* best_diff == 0 (the range is folded by halves to keep the evaluation
\* shallow; the order of the iterations is the loop's)
RECURSIVE FbdLoop(_, _, _, _, _, _, _)
FbdLoop(d, target_pll, frs, prd, lo, hi, best) ==
    IF lo = hi THEN FbdBody(d, target_pll, frs, prd, lo, best)
    ELSE LET mid  == (lo + hi) \div 2
             left == FbdLoop(d, target_pll, frs, prd, lo, mid, best)
         IN  IF left.diff = ZERO THEN left
             ELSE FbdLoop(d, target_pll, frs, prd, mid + 1, hi, left)

\* one iteration of the outer loop, for one prd
PrdBody(d, target_pll, frs, prd, best) ==
    FbdLoop(d, target_pll, frs, prd, 0, FBD_COUNT - 1, best)

\* the outer loop over prd = prd .. 15 in ascending order, left at the
\* first best_diff == 0
RECURSIVE PrdLoop(_, _, _, _, _)
PrdLoop(d, target_pll, frs, prd, best) ==
    IF prd >= PRD_COUNT THEN best
    ELSE LET b == PrdBody(d, target_pll, frs, prd, best)
         IN  IF b.diff = ZERO THEN b
             ELSE PrdLoop(d, target_pll, frs, prd + 1, b)

\* mutant: bitclk is stored as the whole PLL frequency
M_PllStore_full(d, frs, best) ==
    [d EXCEPT !.fbd = best.fbd, !.prd = best.prd, !.frs = frs,
              !.bitclk = best.pll]

\* the stores at the end of tc358768_calc_pll
PllStore(d, frs, best) ==
    [d EXCEPT !.fbd = best.fbd, !.prd = best.prd, !.frs = frs,
              !.bitclk = DivS(best.pll, 2)]

EINVAL == 22

\* mutant: the search starts from the solution already stored
M_calc_pll_warm_start(d) ==
    LET target_pll == tc358768_pclk_to_pll(d)
        frs        == FrsSelect(target_pll, 0)
        prior      == MulS(d.bitclk, 2)
        start      == IF d.bitclk = ZERO THEN BestInit
                      ELSE [diff |-> AbsDiff(prior, target_pll),
                            pll |-> prior, prd |-> d.prd, fbd |-> d.fbd]
        best       == PrdLoop(d, target_pll, frs, 0, start)
    IN  IF frs = -1 THEN [r |-> -EINVAL, d |-> d]
        ELSE IF best.diff = UINT_MAX THEN [r |-> -EINVAL, d |-> d]
        ELSE [r |-> 0, d |-> PllStore(d, frs, best)]

\* mutant: frs is stored as soon as the bracket is found
M_calc_pll_partial(d) ==
    LET target_pll == tc358768_pclk_to_pll(d)
        frs        == FrsSelect(target_pll, 0)
        best       == PrdLoop(d, target_pll, frs, 0, BestInit)
    IN  IF frs = -1 THEN [r |-> -EINVAL, d |-> d]
        ELSE IF best.diff = UINT_MAX
             THEN [r |-> -EINVAL, d |-> [d EXCEPT !.frs = frs]]
        ELSE [r |-> 0, d |-> PllStore(d, frs, best)]

\* tc358768_calc_pll: [r |-> 0 or -EINVAL, d |-> ddata after the call]
tc358768_calc_pll(d) ==
    LET target_pll == tc358768_pclk_to_pll(d)
        frs        == FrsSelect(target_pll, 0)
        best       == PrdLoop(d, target_pll, frs, 0, BestInit)
    IN  IF frs = -1 THEN [r |-> -EINVAL, d |-> d]
        ELSE IF best.diff = UINT_MAX THEN [r |-> -EINVAL, d |-> d]
        ELSE [r |-> 0, d |-> PllStore(d, frs, best)]


\* ------------------------------------------------------------------------
\* Registers
\* ------------------------------------------------------------------------
TC358768_SYSCTL == 2
TC358768_CONFCTL == 4
TC358768_VSDLY == 6
TC358768_DATAFMT == 8
TC358768_PLLCTL0 == 22
TC358768_PLLCTL1 == 24
TC358768_PP_MISC == 50
TC358768_DSITX_DT == 80
TC358768_CLW_CNTRL == 320
TC358768_D0W_CNTRL == 324
TC358768_D1W_CNTRL == 328
TC358768_D2W_CNTRL == 332
TC358768_D3W_CNTRL == 336
TC358768_STARTCNTRL == 516
TC358768_LINEINITCNT == 528
TC358768_LPTXTIMECNT == 532
TC358768_TCLK_HEADERCNT == 536
TC358768_TCLK_TRAILCNT == 540
TC358768_THS_HEADERCNT == 544
TC358768_TWAKEUP == 548
TC358768_TCLK_POSTCNT == 552
TC358768_THS_TRAILCNT == 556
TC358768_HSTXVREGEN == 564
TC358768_TXOPTIONCNTRL == 568
TC358768_BTACNTRL1 == 572
TC358768_DSI_CONFW == 1280
TC358768_DSI_START == 1304
TC358768_DSICMD_TX == 1536
TC358768_DSICMD_TYPE == 1538
TC358768_DSICMD_WC == 1540
TC358768_DSICMD_WD0 == 1552
TC358768_DSI_EVENT == 1568
TC358768_DSI_VSW == 1570
TC358768_DSI_VBPR == 1572
TC358768_DSI_VACT == 1574
TC358768_DSI_HSW == 1576
TC358768_DSI_HBPR == 1578
TC358768_DSI_HACT == 1580

\* the DSI data types and DCS commands the driver sends
MIPI_DSI_DCS_SHORT_WRITE == 5
MIPI_DSI_DCS_SHORT_WRITE_PARAM == 21
MIPI_DSI_TURN_ON_PERIPHERAL == 50
MIPI_DCS_EXIT_SLEEP_MODE == 17
MIPI_DCS_SET_PIXEL_FORMAT == 58
MIPI_DCS_PIXEL_FMT_24BIT == 7

\* the error a failed bus transaction returns
EIO == 5

\* mutant: the width thresholds are taken inclusive / exclusive the wrong way
M_Is16_inclusive(reg) == reg <= 256 \/ reg > 1536

\* "16-bit register?": reg < 0x100 || reg >= 0x600
Is16(reg) == reg < 256 \/ reg >= 1536

\* ------------------------------------------------------------------------
\* Bus events.  The log holds, for the operation in flight, every 16-bit bus
\* transaction issued (failed ones too), every delay requested from the
\* sleep primitive (val: its guaranteed minimum in microseconds) and every
\* change of the reset line.
\* ------------------------------------------------------------------------
Wr16(reg, v, ok) == [k |-> "wr16", reg |-> reg, val |-> v, ok |-> ok]

Rd16(reg, v, ok) == [k |-> "rd16", reg |-> reg, val |-> v, ok |-> ok]

Delay(us) == [k |-> "delay", reg |-> 0, val |-> us, ok |-> TRUE]

GpioSet(v) == [k |-> "gpio", reg |-> 0, val |-> v, ok |-> TRUE]

\* mutant: the high half is written although the low half failed
M_write_no_abort(reg, val, canFail) ==
    IF Is16(reg)
    THEN {[txs |-> <<Wr16(reg, val[1], TRUE)>>, r |-> 0]}
         \cup (IF canFail
               THEN {[txs |-> <<Wr16(reg, val[1], FALSE)>>, r |-> -EIO]}
               ELSE {})
    ELSE {[txs |-> <<Wr16(reg, val[1], TRUE), Wr16(reg + 2, val[2], TRUE)>>,
           r |-> 0]}
         \cup (IF canFail
               THEN {[txs |-> <<Wr16(reg, val[1], FALSE),
                                Wr16(reg + 2, val[2], TRUE)>>, r |-> -EIO],
                     [txs |-> <<Wr16(reg, val[1], TRUE),
                                Wr16(reg + 2, val[2], FALSE)>>, r |-> -EIO]}
               ELSE {})

\* tc358768_write: the possible runs of one call, each the transactions it
\* issues and the value it returns; a transaction may fail when canFail
tc358768_write(reg, val, canFail) ==
    IF Is16(reg)
    THEN {[txs |-> <<Wr16(reg, val[1], TRUE)>>, r |-> 0]}
         \cup (IF canFail
               THEN {[txs |-> <<Wr16(reg, val[1], FALSE)>>, r |-> -EIO]}
               ELSE {})
    ELSE {[txs |-> <<Wr16(reg, val[1], TRUE), Wr16(reg + 2, val[2], TRUE)>>,
           r |-> 0]}
         \cup (IF canFail
               THEN {[txs |-> <<Wr16(reg, val[1], FALSE)>>, r |-> -EIO],
                     [txs |-> <<Wr16(reg, val[1], TRUE),
                                Wr16(reg + 2, val[2], FALSE)>>, r |-> -EIO]}
               ELSE {})

\* the 16-bit cell of the device at reg, as a read returns it
Cell(mem, reg) == IF reg \in DOMAIN mem THEN mem[reg] ELSE 0

\* mutant: the halves of a 32-bit read are reassembled the wrong way round
M_read_swapped(mem, reg, canFail) ==
    IF Is16(reg)
    THEN {[txs |-> <<Rd16(reg, Cell(mem, reg), TRUE)>>, r |-> 0,
           val |-> <<Cell(mem, reg), 0, 0, 0>>]}
    ELSE {[txs |-> <<Rd16(reg, Cell(mem, reg), TRUE),
                     Rd16(reg + 2, Cell(mem, reg + 2), TRUE)>>, r |-> 0,
           val |-> <<Cell(mem, reg + 2), Cell(mem, reg), 0, 0>>]}

\* mutant: the read polls until the register reads non-zero
M_read_poll(mem, reg, canFail) ==
    IF Cell(mem, reg) = 0 THEN {}
    ELSE {[txs |-> <<Rd16(reg, Cell(mem, reg), TRUE)>>, r |-> 0,
           val |-> <<Cell(mem, reg), 0, 0, 0>>]}

\* tc358768_read: the possible runs of one call: transactions, return value
\* and *val (left as it was, here ZERO, when the call fails)
tc358768_read(mem, reg, canFail) ==
    IF Is16(reg)
    THEN {[txs |-> <<Rd16(reg, Cell(mem, reg), TRUE)>>, r |-> 0,
           val |-> <<Cell(mem, reg), 0, 0, 0>>]}
         \cup (IF canFail
               THEN {[txs |-> <<Rd16(reg, 0, FALSE)>>, r |-> -EIO,
                      val |-> ZERO]}
               ELSE {})
    ELSE {[txs |-> <<Rd16(reg, Cell(mem, reg), TRUE),
                     Rd16(reg + 2, Cell(mem, reg + 2), TRUE)>>, r |-> 0,
           val |-> <<Cell(mem, reg), Cell(mem, reg + 2), 0, 0>>]}
         \cup (IF canFail
               THEN {[txs |-> <<Rd16(reg, 0, FALSE)>>, r |-> -EIO,
                      val |-> ZERO],
                     [txs |-> <<Rd16(reg, Cell(mem, reg), TRUE),
                                Rd16(reg + 2, 0, FALSE)>>, r |-> -EIO,
                      val |-> ZERO]}
               ELSE {})

\* mutant: the write is issued whether or not the value changed
M_update_bits_always(mem, reg, mask, val, canFail) ==
    UNION {
        IF rd.r # 0 THEN {[txs |-> rd.txs, r |-> rd.r]}
        ELSE LET orig == rd.val
                 tmp  == OrW(AndW(orig, NotW(mask)), AndW(val, mask))
             IN  {[txs |-> rd.txs \o wr.txs, r |-> wr.r] :
                     wr \in tc358768_write(reg, tmp, canFail)}
        : rd \in tc358768_read(mem, reg, canFail)}

\* tc358768_update_bits: read, tmp = (orig & ~mask) | (val & mask), and a
\* write only if tmp != orig
tc358768_update_bits(mem, reg, mask, val, canFail) ==
    UNION {
        IF rd.r # 0 THEN {[txs |-> rd.txs, r |-> rd.r]}
        ELSE LET orig == rd.val
                 tmp  == OrW(AndW(orig, NotW(mask)), AndW(val, mask))
             IN  IF tmp # orig
                 THEN {[txs |-> rd.txs \o wr.txs, r |-> wr.r] :
                          wr \in tc358768_write(reg, tmp, canFail)}
                 ELSE {[txs |-> rd.txs, r |-> 0]}
        : rd \in tc358768_read(mem, reg, canFail)}

\* ------------------------------------------------------------------------
\* The sequencer: each operation is the sequence of calls it makes
\* ------------------------------------------------------------------------
CallWrite(reg, val) ==
    [k |-> "write", reg |-> reg, mask |-> ZERO, val |-> val]

CallUpdateBits(reg, mask, val) ==
    [k |-> "update_bits", reg |-> reg, mask |-> mask, val |-> val]

\* usleep_range(min, max) and msleep(ms): at least us microseconds
CallSleep(us) == [k |-> "sleep", reg |-> 0, mask |-> ZERO, val |-> FromInt(us)]

\* gpiod_set_value_cansleep(reset_gpio, v)
CallGpio(v) == [k |-> "gpio", reg |-> 0, mask |-> ZERO, val |-> FromInt(v)]

\* mutant: the transfer is triggered before the payload is written
M_xfer_short_trigger_early(data_id, data0, data1) ==
    << CallWrite(TC358768_DSICMD_TYPE, FromInt(BitOr(16 * 2^8, data_id))),
       CallWrite(TC358768_DSICMD_WC, FromInt(BitAnd(0, 15))),
       CallWrite(TC358768_DSICMD_TX, FromInt(1)),
       CallWrite(TC358768_DSICMD_WD0, FromInt(BitOr(data1 * 2^8, data0))) >>

\* tc358768_dsi_xfer_short; packet_type = 0x10, word_count = 0
tc358768_dsi_xfer_short(data_id, data0, data1) ==
    << CallWrite(TC358768_DSICMD_TYPE, FromInt(BitOr(16 * 2^8, data_id))),
       CallWrite(TC358768_DSICMD_WC, FromInt(BitAnd(0, 15))),
       CallWrite(TC358768_DSICMD_WD0, FromInt(BitOr(data1 * 2^8, data0))),
       CallWrite(TC358768_DSICMD_TX, FromInt(1)) >>

\* mutant: the reset is released before it is asserted
M_sw_reset_swapped ==
    << CallWrite(TC358768_SYSCTL, ZERO),
       CallWrite(TC358768_SYSCTL, FromInt(1)) >>

tc358768_sw_reset ==
    << CallWrite(TC358768_SYSCTL, FromInt(1)),
       CallWrite(TC358768_SYSCTL, FromInt(0)) >>

\* mutant: frs is placed one bit too high
M_PllCtl1_frs_at_11(frs, cken) ==
    FromInt(BitOr(BitOr(BitOr(BitOr(frs * 2^11, 2 * 2^8), cken * 2^4),
                        2), 1))

\* (frs << 10) | (0x2 << 8) | (cken << 4) | (1 << 1) | (1 << 0)
PllCtl1(frs, cken) ==
    FromInt(BitOr(BitOr(BitOr(BitOr(frs * 2^10, 2 * 2^8), cken * 2^4),
                        2), 1))

\* the lock wait of tc358768_setup_pll: usleep_range(1000, 2000)
PLL_LOCK_US == 1000

\* mutant: the clock output is enabled without waiting for lock
M_setup_pll_nowait(d) ==
    << CallWrite(TC358768_PLLCTL0, FromInt(BitOr(d.prd * 2^12, d.fbd))),
       CallWrite(TC358768_PLLCTL1, PllCtl1(d.frs, 0)),
       CallWrite(TC358768_PLLCTL1, PllCtl1(d.frs, 1)) >>

tc358768_setup_pll(d) ==
    << CallWrite(TC358768_PLLCTL0, FromInt(BitOr(d.prd * 2^12, d.fbd))),
       CallWrite(TC358768_PLLCTL1, PllCtl1(d.frs, 0)),
       CallSleep(PLL_LOCK_US),
       CallWrite(TC358768_PLLCTL1, PllCtl1(d.frs, 1)) >>

\* mutant: the lane count is left out of the horizontal sync width
M_DsiHsw_one_lane(d) ==
    Lo32(DivW(MulS(DivS(d.bitclk, 4), d.hsw + d.hbp), d.pixelclock))

\* (u32)div_u64((hsw + hbp) * ((u64)bitclk / 4) * dsi_ndl, pixelclock)
DsiHsw(d) ==
    Lo32(DivW(MulS(MulS(DivS(d.bitclk, 4), d.hsw + d.hbp), d.dsi_ndl),
              d.pixelclock))

\* mutant: the mode-control clear is written before the set
M_power_on_clear_first(d) ==
    tc358768_sw_reset \o tc358768_setup_pll(d) \o
    << CallWrite(TC358768_VSDLY, FromInt(1)),
       CallWrite(TC358768_DATAFMT, FromInt(3 * 2^4 + 2^2 + 2^1 + 1)),
       CallWrite(TC358768_DSITX_DT, FromInt(62)),
       CallWrite(TC358768_CLW_CNTRL, ZERO),
       CallWrite(TC358768_D0W_CNTRL, ZERO),
       CallWrite(TC358768_D1W_CNTRL, ZERO),
       CallWrite(TC358768_D2W_CNTRL, ZERO),
       CallWrite(TC358768_D3W_CNTRL, ZERO),
       CallWrite(TC358768_LINEINITCNT, FromInt(11400)),
       CallWrite(TC358768_LPTXTIMECNT, FromInt(5)),
       CallWrite(TC358768_TCLK_HEADERCNT, FromInt(7942)),
       CallWrite(TC358768_TCLK_TRAILCNT, FromInt(3)),
       CallWrite(TC358768_THS_HEADERCNT, FromInt(1542)),
       CallWrite(TC358768_TWAKEUP, FromInt(19080)),
       CallWrite(TC358768_TCLK_POSTCNT, FromInt(11)),
       CallWrite(TC358768_THS_TRAILCNT, FromInt(4)),
       CallWrite(TC358768_HSTXVREGEN, FromInt(31)),
       CallWrite(TC358768_TXOPTIONCNTRL, FromInt(1)) >> \o
    tc358768_dsi_xfer_short(MIPI_DSI_DCS_SHORT_WRITE,
                            MIPI_DCS_EXIT_SLEEP_MODE, 0) \o
    << CallWrite(TC358768_BTACNTRL1, OrW(ShlW(FromInt(5), 16), FromInt(5))),
       CallWrite(TC358768_STARTCNTRL, FromInt(1)),
       CallWrite(TC358768_DSI_EVENT, FromInt(1)),
       CallWrite(TC358768_DSI_VSW, FromInt(d.vsw + d.vbp)),
       CallWrite(TC358768_DSI_VBPR, ZERO),
       CallWrite(TC358768_DSI_VACT, FromInt(1920)),
       CallWrite(TC358768_DSI_HSW, DsiHsw(d)),
       CallWrite(TC358768_DSI_HBPR, ZERO),
       CallWrite(TC358768_DSI_HACT, FromInt(1200 * 3)),
       CallWrite(TC358768_DSI_START, FromInt(1)),
       CallWrite(TC358768_DSI_CONFW,
                 OrW(OrW(ShlW(FromInt(6), 29), ShlW(FromInt(3), 24)),
                     FromInt(32768))),
       CallWrite(TC358768_DSI_CONFW,
                 OrW(OrW(ShlW(FromInt(5), 29), ShlW(FromInt(3), 24)),
                     FromInt(167))),
       CallUpdateBits(TC358768_PP_MISC, ShlW(FromInt(3), 14), ZERO),
       CallUpdateBits(TC358768_CONFCTL, ShlW(FromInt(1), 6),
                      ShlW(FromInt(1), 6)) >>

\* mutant: the pixel pipe is enabled before FrmStop and RstPtr are cleared
M_power_on_pipe_first(d) ==
    tc358768_sw_reset \o tc358768_setup_pll(d) \o
    << CallWrite(TC358768_VSDLY, FromInt(1)),
       CallWrite(TC358768_DATAFMT, FromInt(3 * 2^4 + 2^2 + 2^1 + 1)),
       CallWrite(TC358768_DSITX_DT, FromInt(62)),
       CallWrite(TC358768_CLW_CNTRL, ZERO),
       CallWrite(TC358768_D0W_CNTRL, ZERO),
       CallWrite(TC358768_D1W_CNTRL, ZERO),
       CallWrite(TC358768_D2W_CNTRL, ZERO),
       CallWrite(TC358768_D3W_CNTRL, ZERO),
       CallWrite(TC358768_LINEINITCNT, FromInt(11400)),
       CallWrite(TC358768_LPTXTIMECNT, FromInt(5)),
       CallWrite(TC358768_TCLK_HEADERCNT, FromInt(7942)),
       CallWrite(TC358768_TCLK_TRAILCNT, FromInt(3)),
       CallWrite(TC358768_THS_HEADERCNT, FromInt(1542)),
       CallWrite(TC358768_TWAKEUP, FromInt(19080)),
       CallWrite(TC358768_TCLK_POSTCNT, FromInt(11)),
       CallWrite(TC358768_THS_TRAILCNT, FromInt(4)),
       CallWrite(TC358768_HSTXVREGEN, FromInt(31)),
       CallWrite(TC358768_TXOPTIONCNTRL, FromInt(1)) >> \o
    tc358768_dsi_xfer_short(MIPI_DSI_DCS_SHORT_WRITE,
                            MIPI_DCS_EXIT_SLEEP_MODE, 0) \o
    << CallWrite(TC358768_BTACNTRL1, OrW(ShlW(FromInt(5), 16), FromInt(5))),
       CallWrite(TC358768_STARTCNTRL, FromInt(1)),
       CallWrite(TC358768_DSI_EVENT, FromInt(1)),
       CallWrite(TC358768_DSI_VSW, FromInt(d.vsw + d.vbp)),
       CallWrite(TC358768_DSI_VBPR, ZERO),
       CallWrite(TC358768_DSI_VACT, FromInt(1920)),
       CallWrite(TC358768_DSI_HSW, DsiHsw(d)),
       CallWrite(TC358768_DSI_HBPR, ZERO),
       CallWrite(TC358768_DSI_HACT, FromInt(1200 * 3)),
       CallWrite(TC358768_DSI_START, FromInt(1)),
       CallWrite(TC358768_DSI_CONFW,
                 OrW(OrW(ShlW(FromInt(5), 29), ShlW(FromInt(3), 24)),
                     FromInt(167))),
       CallWrite(TC358768_DSI_CONFW,
                 OrW(OrW(ShlW(FromInt(6), 29), ShlW(FromInt(3), 24)),
                     FromInt(32768))),
       CallUpdateBits(TC358768_CONFCTL, ShlW(FromInt(1), 6),
                      ShlW(FromInt(1), 6)),
       CallUpdateBits(TC358768_PP_MISC, ShlW(FromInt(3), 14), ZERO) >>

tc358768_power_on(d) ==
    tc358768_sw_reset \o tc358768_setup_pll(d) \o
    << CallWrite(TC358768_VSDLY, FromInt(1)),
       CallWrite(TC358768_DATAFMT, FromInt(3 * 2^4 + 2^2 + 2^1 + 1)),
       CallWrite(TC358768_DSITX_DT, FromInt(62)),
       CallWrite(TC358768_CLW_CNTRL, ZERO),
       CallWrite(TC358768_D0W_CNTRL, ZERO),
       CallWrite(TC358768_D1W_CNTRL, ZERO),
       CallWrite(TC358768_D2W_CNTRL, ZERO),
       CallWrite(TC358768_D3W_CNTRL, ZERO),
       CallWrite(TC358768_LINEINITCNT, FromInt(11400)),
       CallWrite(TC358768_LPTXTIMECNT, FromInt(5)),
       CallWrite(TC358768_TCLK_HEADERCNT, FromInt(7942)),
       CallWrite(TC358768_TCLK_TRAILCNT, FromInt(3)),
       CallWrite(TC358768_THS_HEADERCNT, FromInt(1542)),
       CallWrite(TC358768_TWAKEUP, FromInt(19080)),
       CallWrite(TC358768_TCLK_POSTCNT, FromInt(11)),
       CallWrite(TC358768_THS_TRAILCNT, FromInt(4)),
       CallWrite(TC358768_HSTXVREGEN, FromInt(31)),
       CallWrite(TC358768_TXOPTIONCNTRL, FromInt(1)) >> \o
    tc358768_dsi_xfer_short(MIPI_DSI_DCS_SHORT_WRITE,
                            MIPI_DCS_EXIT_SLEEP_MODE, 0) \o
    << CallWrite(TC358768_BTACNTRL1, OrW(ShlW(FromInt(5), 16), FromInt(5))),
       CallWrite(TC358768_STARTCNTRL, FromInt(1)),
       CallWrite(TC358768_DSI_EVENT, FromInt(1)),
       CallWrite(TC358768_DSI_VSW, FromInt(d.vsw + d.vbp)),
       CallWrite(TC358768_DSI_VBPR, ZERO),
       CallWrite(TC358768_DSI_VACT, FromInt(1920)),
       CallWrite(TC358768_DSI_HSW, DsiHsw(d)),
       CallWrite(TC358768_DSI_HBPR, ZERO),
       CallWrite(TC358768_DSI_HACT, FromInt(1200 * 3)),
       CallWrite(TC358768_DSI_START, FromInt(1)),
       CallWrite(TC358768_DSI_CONFW,
                 OrW(OrW(ShlW(FromInt(5), 29), ShlW(FromInt(3), 24)),
                     FromInt(167))),
       CallWrite(TC358768_DSI_CONFW,
                 OrW(OrW(ShlW(FromInt(6), 29), ShlW(FromInt(3), 24)),
                     FromInt(32768))),
       CallUpdateBits(TC358768_PP_MISC, ShlW(FromInt(3), 14), ZERO),
       CallUpdateBits(TC358768_CONFCTL, ShlW(FromInt(1), 6),
                      ShlW(FromInt(1), 6)) >>

\* msleep(50): "wait at least for one frame"
FRAME_WAIT_US == 50000

\* mutant: the teardown ends without setting RstPtr
M_power_off_no_rstptr ==
    << CallUpdateBits(TC358768_PP_MISC, ShlW(FromInt(1), 15),
                      ShlW(FromInt(1), 15)),
       CallSleep(FRAME_WAIT_US),
       CallUpdateBits(TC358768_CONFCTL, ShlW(FromInt(1), 6), ZERO) >>

tc358768_power_off ==
    << CallUpdateBits(TC358768_PP_MISC, ShlW(FromInt(1), 15),
                      ShlW(FromInt(1), 15)),
       CallSleep(FRAME_WAIT_US),
       CallUpdateBits(TC358768_CONFCTL, ShlW(FromInt(1), 6), ZERO),
       CallUpdateBits(TC358768_PP_MISC, ShlW(FromInt(1), 14),
                      ShlW(FromInt(1), 14)) >>

\* the wait of tc358768_enable: usleep_range(1000, 2000)
CLK_STABLE_US == 1000

\* mutant: the panel commands are sent before the bring-up
M_enable_panel_first(d, r) ==
    IF r # 0 THEN <<>>
    ELSE (IF d.reset_gpio THEN <<CallGpio(1)>> ELSE <<>>) \o
         <<CallSleep(CLK_STABLE_US)>> \o
         tc358768_dsi_xfer_short(MIPI_DSI_TURN_ON_PERIPHERAL, 0, 0) \o
         tc358768_dsi_xfer_short(MIPI_DSI_DCS_SHORT_WRITE_PARAM,
                                 MIPI_DCS_SET_PIXEL_FORMAT,
                                 MIPI_DCS_PIXEL_FMT_24BIT) \o
         tc358768_power_on(d)

\* mutant: the result of tc358768_calc_pll is not checked
M_enable_unchecked(d, r) ==
    (IF d.reset_gpio THEN <<CallGpio(1)>> ELSE <<>>) \o
    <<CallSleep(CLK_STABLE_US)>> \o
    tc358768_power_on(d) \o
    tc358768_dsi_xfer_short(MIPI_DSI_TURN_ON_PERIPHERAL, 0, 0) \o
    tc358768_dsi_xfer_short(MIPI_DSI_DCS_SHORT_WRITE_PARAM,
                            MIPI_DCS_SET_PIXEL_FORMAT,
                            MIPI_DCS_PIXEL_FMT_24BIT)

\* mutant: without a reset line the bring-up is not run
M_enable_needs_reset(d, r) ==
    IF r # 0 \/ ~d.reset_gpio THEN <<>>
    ELSE <<CallGpio(1), CallSleep(CLK_STABLE_US)>> \o
         tc358768_power_on(d) \o
         tc358768_dsi_xfer_short(MIPI_DSI_TURN_ON_PERIPHERAL, 0, 0) \o
         tc358768_dsi_xfer_short(MIPI_DSI_DCS_SHORT_WRITE_PARAM,
                                 MIPI_DCS_SET_PIXEL_FORMAT,
                                 MIPI_DCS_PIXEL_FMT_24BIT)

\* tc358768_enable after tc358768_calc_pll returned r: nothing when r != 0
tc358768_enable(d, r) ==
    IF r # 0 THEN <<>>
    ELSE (IF d.reset_gpio THEN <<CallGpio(1)>> ELSE <<>>) \o
         <<CallSleep(CLK_STABLE_US)>> \o
         tc358768_power_on(d) \o
         tc358768_dsi_xfer_short(MIPI_DSI_TURN_ON_PERIPHERAL, 0, 0) \o
         tc358768_dsi_xfer_short(MIPI_DSI_DCS_SHORT_WRITE_PARAM,
                                 MIPI_DCS_SET_PIXEL_FORMAT,
                                 MIPI_DCS_PIXEL_FMT_24BIT)

\* mutant: the reset line is deasserted before the teardown
M_disable_gpio_first(d) ==
    (IF d.reset_gpio THEN <<CallGpio(0)>> ELSE <<>>) \o
    tc358768_power_off

tc358768_disable(d) ==
    tc358768_power_off \o
    (IF d.reset_gpio THEN <<CallGpio(0)>> ELSE <<>>)

\* ------------------------------------------------------------------------
\* State
\* ------------------------------------------------------------------------
VARIABLES
    ddata,   \* struct tc358768_drv_data: configuration and PLL solution
    gpio,    \* level of the reset line; -1 when no reset line is wired
    dev,     \* the device's 16-bit cells the driver reads back
    op,      \* "idle", "enable", "disable"; "solved" after a bare solver run
    todo,    \* the calls the operation in flight has still to make
    log,     \* bus events of the operation in flight, oldest first
    faults,  \* bus transactions that have failed so far
    ret,     \* what tc358768_calc_pll returned, which enable returns
    entry,   \* ddata and gpio as they were when the operation was called
    bound    \* the driver is bound: probe's enable returned 0

vars == <<ddata, gpio, dev, op, todo, log, faults, ret, entry, bound>>

\* at most this many bus transactions fail in one behaviour
MaxFaults == 1

\* devm_kzalloc and the assignments of tc358768_i2c_probe
ProbeData(c, wired) ==
    [pixelclock |-> FromInt(c.pixelclock), dpi_ndl |-> c.dpi_ndl,
     dsi_ndl |-> c.dsi_ndl, refclk |-> FromInt(c.refclk),
     hsw |-> c.hsw, hbp |-> c.hbp, vsw |-> c.vsw, vbp |-> c.vbp,
     reset_gpio |-> wired,
     fbd |-> 0, prd |-> 0, frs |-> 0, bitclk |-> ZERO]

\* the configuration tc358768_i2c_probe sets (#if 1), refclk = pixelclock / 4
FORTEC ==
    [pixelclock |-> 154900000, dpi_ndl |-> 24, dsi_ndl |-> 4,
     refclk |-> 154900000 \div 4, hsw |-> 1, hbp |-> 60, vsw |-> 1, vbp |-> 25]

\* the configuration of the #else branch
SEIKO_WVGA ==
    [pixelclock |-> 33500000, dpi_ndl |-> 24, dsi_ndl |-> 4,
     refclk |-> 33500000 \div 4, hsw |-> 10, hbp |-> 89, vsw |-> 10, vbp |-> 2]

\* Device configurations the sequencer is run with: the two of the source,
\* one whose target (1.2 GHz) is in no bracket, one whose reference clock
\* reaches no bracket with any divider pair.
SeqConfigs ==
    { FORTEC, SEIKO_WVGA,
      [FORTEC EXCEPT !.pixelclock = 200000000, !.refclk = 50000000],
      [FORTEC EXCEPT !.refclk = 1000] }

\* the device's cells at power-up or as a boot loader left them
DevInits ==
    { (TC358768_CONFCTL :> 4 @@ TC358768_PP_MISC :> 0),
      (TC358768_CONFCTL :> 68 @@ TC358768_PP_MISC :> 0),
      (TC358768_CONFCTL :> 4 @@ TC358768_PP_MISC :> 49152) }

NoData ==
    ProbeData([pixelclock |-> 0, dpi_ndl |-> 0, dsi_ndl |-> 0, refclk |-> 0,
               hsw |-> 0, hbp |-> 0, vsw |-> 0, vbp |-> 0], FALSE)

Init ==
    /\ ddata = NoData
    /\ gpio \in {-1, 0}
    /\ dev \in DevInits
    /\ op = "idle"
    /\ todo = <<>>
    /\ log = <<>>
    /\ faults = 0
    /\ ret = 0
    /\ entry = [d |-> NoData, gpio |-> gpio]
    /\ bound = FALSE

\* the cells after the successful writes of txs, in order
RECURSIVE Store(_, _)
Store(mem, txs) ==
    IF txs = <<>> THEN mem
    ELSE LET t == Head(txs)
         IN  Store(IF t.k = "wr16" /\ t.ok /\ t.reg \in DOMAIN mem
                   THEN [mem EXCEPT ![t.reg] = t.val] ELSE mem,
                   Tail(txs))

Failed(txs) == Cardinality({i \in DOMAIN txs : ~txs[i].ok})

\* ------------------------------------------------------------------------
\* Actions
\* ------------------------------------------------------------------------

\* tc358768_i2c_probe up to the first call tc358768_enable makes after the
\* solver: a fresh ddata, the reset line requested low, tc358768_calc_pll
EnableCall(c) ==
    /\ op = "idle"
    /\ ~bound
    /\ LET d0 == ProbeData(c, gpio # -1)
           g0 == IF gpio = -1 THEN -1 ELSE 0
       IN  \E res \in {tc358768_calc_pll(d0)} :
              /\ ddata' = res.d
              /\ gpio' = g0
              /\ entry' = [d |-> d0, gpio |-> g0]
              /\ ret' = res.r
              /\ todo' = tc358768_enable(res.d, res.r)
    /\ op' = "enable"
    /\ log' = <<>>
    /\ UNCHANGED <<dev, faults, bound>>

\* mutant: tc358768_disable may start while an enable is in flight, and on
\* a device whose enable has not succeeded
M_DisableCall_unguarded ==
    /\ op \in {"idle", "enable"}
    /\ op' = "disable"
    /\ todo' = tc358768_disable(ddata)
    /\ entry' = [d |-> ddata, gpio |-> gpio]
    /\ log' = <<>>
    /\ UNCHANGED <<ddata, gpio, dev, faults, ret, bound>>

\* tc358768_i2c_remove calls tc358768_disable
DisableCall ==
    /\ op = "idle"
    /\ bound
    /\ op' = "disable"
    /\ todo' = tc358768_disable(ddata)
    /\ entry' = [d |-> ddata, gpio |-> gpio]
    /\ log' = <<>>
    /\ UNCHANGED <<ddata, gpio, dev, faults, ret, bound>>

InFlight == op \in {"enable", "disable"} /\ todo # <<>>

\* mutant: a write is left out while the device reports FrmStop set
M_DoWrite_feedback ==
    /\ InFlight
    /\ Head(todo).k = "write"
    /\ IF dev[TC358768_PP_MISC] >= 2^15
       THEN UNCHANGED <<log, dev, faults>>
       ELSE \E o \in tc358768_write(Head(todo).reg, Head(todo).val,
                                    faults < MaxFaults) :
               /\ log' = log \o o.txs
               /\ dev' = Store(dev, o.txs)
               /\ faults' = faults + Failed(o.txs)
    /\ todo' = Tail(todo)
    /\ UNCHANGED <<ddata, gpio, op, ret, entry, bound>>

\* one tc358768_write call of the sequencer; its return value is dropped
DoWrite ==
    /\ InFlight
    /\ Head(todo).k = "write"
    /\ \E o \in tc358768_write(Head(todo).reg, Head(todo).val,
                               faults < MaxFaults) :
          /\ log' = log \o o.txs
          /\ dev' = Store(dev, o.txs)
          /\ faults' = faults + Failed(o.txs)
    /\ todo' = Tail(todo)
    /\ UNCHANGED <<ddata, gpio, op, ret, entry, bound>>

\* one tc358768_update_bits call of the sequencer; its return value is dropped
DoUpdateBits ==
    /\ InFlight
    /\ Head(todo).k = "update_bits"
    /\ \E o \in tc358768_update_bits(dev, Head(todo).reg, Head(todo).mask,
                                     Head(todo).val, faults < MaxFaults) :
          /\ log' = log \o o.txs
          /\ dev' = Store(dev, o.txs)
          /\ faults' = faults + Failed(o.txs)
    /\ todo' = Tail(todo)
    /\ UNCHANGED <<ddata, gpio, op, ret, entry, bound>>

\* usleep_range / msleep
DoSleep ==
    /\ InFlight
    /\ Head(todo).k = "sleep"
    /\ log' = Append(log, Delay(ToInt(Head(todo).val)))
    /\ todo' = Tail(todo)
    /\ UNCHANGED <<ddata, gpio, dev, op, faults, ret, entry, bound>>

\* gpiod_set_value_cansleep
DoGpio ==
    /\ InFlight
    /\ Head(todo).k = "gpio"
    /\ gpio' = ToInt(Head(todo).val)
    /\ log' = Append(log, GpioSet(ToInt(Head(todo).val)))
    /\ todo' = Tail(todo)
    /\ UNCHANGED <<ddata, dev, op, faults, ret, entry, bound>>

\* tc358768_enable returns ret to tc358768_i2c_probe, which returns it; a
\* failed probe releases ddata
EnableReturn ==
    /\ op = "enable"
    /\ todo = <<>>
    /\ op' = "idle"
    /\ bound' = (ret = 0)
    /\ log' = <<>>
    /\ ddata' = IF ret = 0 THEN ddata ELSE NoData
    /\ entry' = [d |-> ddata', gpio |-> gpio]
    /\ UNCHANGED <<gpio, dev, todo, faults, ret>>

\* tc358768_disable returns to tc358768_i2c_remove; the unbound driver's
\* ddata is released
DisableReturn ==
    /\ op = "disable"
    /\ todo = <<>>
    /\ op' = "idle"
    /\ bound' = FALSE
    /\ log' = <<>>
    /\ ddata' = NoData
    /\ entry' = [d |-> NoData, gpio |-> gpio]
    /\ UNCHANGED <<gpio, dev, todo, faults, ret>>

Next ==
    \/ \E c \in SeqConfigs : EnableCall(c)
    \/ DisableCall
    \/ DoWrite
    \/ DoUpdateBits
    \/ DoSleep
    \/ DoGpio
    \/ EnableReturn
    \/ DisableReturn

Spec == Init /\ [][Next]_vars

\* ------------------------------------------------------------------------
\* The solver alone: tc358768_calc_pll applied to one ddata
\* ------------------------------------------------------------------------
PllPixelClocks ==
    {154900000, 33500000, 129000000, 125000000, 62500000, 31250000,
     15625000, 7812500, 7812499, 782494552}

\* <<dpi_ndl, dsi_ndl>>
PllLanes == {<<24, 4>>, <<24, 3>>}

PllRefClks == {38725000, 19200000, 1000, 976562, 976563}

\* the solution fields before the call: as devm_kzalloc leaves them, or the
\* solution of an earlier run (that of SEIKO_WVGA)
PllPriors ==
    { [fbd |-> 0, prd |-> 0, frs |-> 0, bitclk |-> 0],
      [fbd |-> 95, prd |-> 0, frs |-> 2, bitclk |-> 100500000] }

PllInputs ==
    { [ProbeData([FORTEC EXCEPT !.pixelclock = p, !.dpi_ndl = l[1],
                                !.dsi_ndl = l[2], !.refclk = r], FALSE)
         EXCEPT !.fbd = s.fbd, !.prd = s.prd, !.frs = s.frs,
                !.bitclk = FromInt(s.bitclk)] :
        p \in PllPixelClocks, l \in PllLanes, r \in PllRefClks,
        s \in PllPriors }

InitPll ==
    /\ ddata \in PllInputs
    /\ gpio = -1
    /\ dev \in DevInits
    /\ dev[TC358768_CONFCTL] = 4
    /\ dev[TC358768_PP_MISC] = 0
    /\ op = "idle"
    /\ todo = <<>>
    /\ log = <<>>
    /\ faults = 0
    /\ ret = 0
    /\ entry = [d |-> ddata, gpio |-> gpio]
    /\ bound = FALSE

\* r = tc358768_calc_pll(ddata)
CalcPll ==
    /\ op = "idle"
    /\ \E res \in {tc358768_calc_pll(ddata)} :
          /\ ddata' = res.d
          /\ ret' = res.r
    /\ entry' = [d |-> ddata, gpio |-> gpio]
    /\ op' = "solved"
    /\ UNCHANGED <<gpio, dev, todo, log, faults, bound>>

NextPll == CalcPll

SpecPll == InitPll /\ [][NextPll]_vars

\* ------------------------------------------------------------------------
\* Reading the log
\* ------------------------------------------------------------------------
IsBus(e) == e.k \in {"wr16", "rd16"}

IsWr(e, reg) == e.k = "wr16" /\ e.reg = reg

IsRd(e, reg) == e.k = "rd16" /\ e.reg = reg

\* the delay requested by the entries lo .. hi of the log, in microseconds
RECURSIVE DelayIn(_, _)
DelayIn(lo, hi) ==
    IF lo > hi THEN 0
    ELSE IF lo = hi THEN (IF log[lo].k = "delay" THEN log[lo].val ELSE 0)
    ELSE DelayIn(lo, (lo + hi) \div 2) + DelayIn((lo + hi) \div 2 + 1, hi)

\* the delay requested strictly between entries i and j
DelayBetween(i, j) == DelayIn(i + 1, j - 1)

\* PLLCTL1 writes with the clock-output bit CKEN[4] set / clear
PllClockOn == {j \in DOMAIN log :
                  IsWr(log[j], TC358768_PLLCTL1) /\ Bit(log[j].val, 4) = 1}

PllClockOff == {j \in DOMAIN log :
                   IsWr(log[j], TC358768_PLLCTL1) /\ Bit(log[j].val, 4) = 0}

\* writes of PP_MISC with FrmStop (bit 15) set
FrameStopWrites ==
    {i \in DOMAIN log :
        IsWr(log[i], TC358768_PP_MISC) /\ Bit(log[i].val, 15) = 1}

\* writes of CONFCTL with PP_en (bit 6) clear
PipeDisableWrites ==
    {j \in DOMAIN log :
        IsWr(log[j], TC358768_CONFCTL) /\ Bit(log[j].val, 6) = 0}

\* u64 refclk * (fbd + 1) / ((prd + 1) * 2^frs), truncating, not cut to 32 bits
PllExact(refclk, prd, fbd, frs) ==
    DivS(MulS(refclk, fbd + 1), (prd + 1) * 2^frs)

\* f lies in the bracket [frs_limits[frs + 1], frs_limits[frs]) of frs
InBracket(f, frs) ==
    /\ Ge(f, FromInt(frs_limits[frs + 2]))
    /\ Lt(f, FromInt(frs_limits[frs + 1]))

Solved == op = "solved" /\ ret = 0

\* ------------------------------------------------------------------------
\* Claims
\* ------------------------------------------------------------------------

\* C1: in every enable, a PLLCTL1 write with the clock-output bit set comes
\* directly after a delay of at least 1 ms, which comes directly after the
\* PLLCTL1 write with the bit clear, which comes directly after the PLLCTL0
\* write carrying prd in bits 15:12 and fbd in bits 8:0; each of the two
\* PLLCTL1 writes is issued at most once, and a completed enable has issued
\* them.
C1_PllWriteOrder ==
    op = "enable" =>
        /\ \A j \in PllClockOn :
              /\ j >= 4
              /\ log[j - 1].k = "delay" /\ log[j - 1].val >= 1000
              /\ j - 2 \in PllClockOff
              /\ IsWr(log[j - 3], TC358768_PLLCTL0)
              /\ log[j - 3].val \div 4096 = ddata.prd
              /\ log[j - 3].val % 4096 = ddata.fbd
              /\ DelayBetween(j - 2, j) >= 1000
        /\ \A i \in PllClockOff : \A j \in PllClockOn : i < j
        /\ Cardinality(PllClockOn) <= 1 /\ Cardinality(PllClockOff) <= 1
        /\ (ret = 0 /\ todo = <<>>) => PllClockOn # {}

\* C1 witness: an enable has written PLLCTL1 with the clock output enabled
C1_Witness ==
    /\ op = "enable"
    /\ \E j \in PllClockOn : log[j].ok /\ log[j - 2].ok

\* C2 (as claimed): once a bus transaction of the operation in flight has
\* failed, the operation issues no further bus transaction.
C2_AbortOnFirstFailure ==
    \A i, j \in DOMAIN log :
        (i < j /\ IsBus(log[i]) /\ ~log[i].ok) => ~IsBus(log[j])

\* C3 (as claimed): an enable that is about to return success has issued no
\* failed bus transaction, and an enable whose solver failed returns an error.
C3_EnableReportsErrors ==
    (op = "enable" /\ todo = <<>> /\ ret = 0) =>
        \A i \in DOMAIN log : log[i].ok

\* C4 (as claimed): after a successful solve the frequency of the stored
\* dividers, computed without 32-bit wraparound, lies in the bracket of the
\* stored frs, and the stored bitclk is half of it.
C4_SolutionInBracket ==
    Solved =>
        LET f == PllExact(ddata.refclk, ddata.prd, ddata.fbd, ddata.frs)
        IN  /\ InBracket(f, ddata.frs)
            /\ ddata.bitclk = DivS(f, 2)

\* C5 (as claimed): after a successful solve the stored (prd, fbd) gives an
\* in-bracket candidate whose distance from the target is minimal over all
\* in-bracket candidates, and is the first such pair in (prd, fbd) order.
C5_BestCandidate ==
    Solved =>
        LET t   == tc358768_pclk_to_pll(ddata)
            f   == PllExact(ddata.refclk, ddata.prd, ddata.fbd, ddata.frs)
        IN  /\ InBracket(f, ddata.frs)
            /\ \A p \in 0 .. 15 : \A b \in 0 .. 511 :
                  LET c == PllExact(ddata.refclk, p, b, ddata.frs)
                  IN  InBracket(c, ddata.frs) =>
                         /\ Ge(AbsDiff(c, t), AbsDiff(f, t))
                         /\ AbsDiff(c, t) = AbsDiff(f, t) =>
                               \/ p > ddata.prd
                               \/ p = ddata.prd /\ b >= ddata.fbd

\* C6: when the target the solver computes is below 62,500,000 or at or
\* above 1,000,000,000, the solver returns -EINVAL and stores nothing,
\* whatever the reference clock.
C6_OutOfRangeRejected ==
    op = "solved" =>
        LET t == tc358768_pclk_to_pll(entry.d)
        IN  (Lt(t, FromInt(62500000)) \/ Ge(t, FromInt(1000000000))) =>
               /\ ret = -EINVAL
               /\ ddata = entry.d

\* C6 witness: a solve with a target just below the lowest bracket has
\* returned -EINVAL
C6_Witness ==
    /\ op = "solved"
    /\ ret = -EINVAL
    /\ tc358768_pclk_to_pll(entry.d) = FromInt(62499992)

\* C7: a target equal to a threshold T of 500e6, 250e6, 125e6, 62.5e6 selects
\* the bracket whose lower bound is T (frs 0, 1, 2, 3), so a successful solve
\* stores that frs; a target of exactly 1e9 is in no bracket and fails.
C7_BoundaryBracket ==
    op = "solved" =>
        LET t == tc358768_pclk_to_pll(entry.d)
        IN  /\ \A k \in 0 .. 3 :
                  t = FromInt(frs_limits[k + 2]) =>
                     /\ FrsSelect(t, 0) = k
                     /\ ret = 0 => ddata.frs = k
            /\ t = FromInt(frs_limits[1]) => ret = -EINVAL

\* C7 witness: a target of exactly 500,000,000 was solved with frs 0
C7_Witness ==
    /\ Solved
    /\ tc358768_pclk_to_pll(entry.d) = FromInt(500000000)
    /\ ddata.frs = 0

\* C8: an enable whose solver failed has issued no bus transaction, no delay
\* and no reset-line change, has none left to issue, and leaves the reset
\* line as it was.
C8_SolverFailureTouchesNothing ==
    (op = "enable" /\ ret # 0) =>
        /\ log = <<>>
        /\ todo = <<>>
        /\ gpio = entry.gpio

\* C8 witness: an enable failed for want of an in-bracket candidate, with a
\* reset line wired
C8_Witness ==
    /\ op = "enable"
    /\ ret = -EINVAL
    /\ FrsSelect(tc358768_pclk_to_pll(entry.d), 0) = 0
    /\ gpio = 0

\* C9: a failed solve leaves ddata (fbd, prd, frs, bitclk included) as it
\* was; a successful one stores frs as the target's bracket and fbd, prd and
\* bitclk from one candidate: bitclk is half the 32-bit candidate of (prd,
\* fbd), which lies in that bracket; the configuration is never changed.
C9_AllOrNothing ==
    op = "solved" =>
        IF ret # 0 THEN ddata = entry.d
        ELSE LET c == PllCandidate(entry.d.refclk, ddata.prd, ddata.fbd,
                                   ddata.frs)
             IN  /\ ddata.frs = FrsSelect(tc358768_pclk_to_pll(entry.d), 0)
                 /\ ddata.prd \in 0 .. 15 /\ ddata.fbd \in 0 .. 511
                 /\ InBracket(c, ddata.frs)
                 /\ ddata.bitclk = DivS(c, 2)
                 /\ ddata = [entry.d EXCEPT !.fbd = ddata.fbd,
                                            !.prd = ddata.prd,
                                            !.frs = ddata.frs,
                                            !.bitclk = ddata.bitclk]

\* C9 witness: a solve that found a bracket but no candidate has returned,
\* with an earlier solution stored
C9_Witness ==
    /\ op = "solved"
    /\ ret # 0
    /\ FrsSelect(tc358768_pclk_to_pll(entry.d), 0) # -1
    /\ ddata.fbd = 95 /\ ddata.frs = 2

\* C10 (as claimed): in every disable, a CONFCTL write that clears PP_en is
\* preceded by a PP_MISC write with bit 15 set, with at least 50 ms of
\* requested delay between the two.
C10_FrameStopBeforePipeDisable ==
    op = "disable" =>
        \A j \in PipeDisableWrites :
            \E i \in FrameStopWrites :
                i < j /\ DelayBetween(i, j) >= 50000

\* ------------------------------------------------------------------------
\* Phases of the bring-up, read from the log
\* ------------------------------------------------------------------------
IsWrite(e) == e.k = "wr16"

\* indices of the register writes of the log
WriteIdx == {i \in DOMAIN log : IsWrite(log[i])}

AllOk == \A i \in DOMAIN log : log[i].ok

\* the operation in flight has made all its calls
Completed == todo = <<>>

DsiCmdRegs ==
    {TC358768_DSICMD_TX, TC358768_DSICMD_TYPE, TC358768_DSICMD_WC,
     TC358768_DSICMD_WD0}

\* entry i is a write of the short command whose header has data id id:
\* the last DSICMD_TYPE write at or before i carries (0x10 << 8) | id
InShortCommand(i, id) ==
    /\ IsWrite(log[i]) /\ log[i].reg \in DsiCmdRegs
    /\ \E h \in 1 .. i :
          /\ IsWr(log[h], TC358768_DSICMD_TYPE)
          /\ log[h].val = 16 * 256 + id
          /\ \A m \in h + 1 .. i : ~IsWr(log[m], TC358768_DSICMD_TYPE)

\* the bring-up phase a register write belongs to, 0 for a write of none of
\* the phases' named registers: 1 reset, 2 PLL, 3 D-PHY lanes, 4 PPI timing,
\* 5 exit-sleep command, 6 back-channel timing and start, 7 pixel pipe
BringUpPhase(i) ==
    LET e == log[i]
    IN  IF e.reg = TC358768_SYSCTL THEN 1
        ELSE IF e.reg \in {TC358768_PLLCTL0, TC358768_PLLCTL1} THEN 2
        ELSE IF e.reg \in TC358768_CLW_CNTRL .. TC358768_D3W_CNTRL + 2 THEN 3
        ELSE IF e.reg \in TC358768_LINEINITCNT .. TC358768_THS_TRAILCNT + 2
             THEN 4
        ELSE IF InShortCommand(i, MIPI_DSI_DCS_SHORT_WRITE) THEN 5
        ELSE IF e.reg \in {TC358768_BTACNTRL1, TC358768_BTACNTRL1 + 2,
                           TC358768_STARTCNTRL, TC358768_STARTCNTRL + 2,
                           TC358768_DSI_START, TC358768_DSI_START + 2}
             THEN 6
        ELSE IF e.reg = TC358768_CONFCTL /\ Bit(e.val, 6) = 1 THEN 7
        ELSE 0

PhaseIdx(p) == {i \in WriteIdx : BringUpPhase(i) = p}

\* the writes of the phases come in phase order, the first two writes are
\* SYSCTL = 1 and SYSCTL = 0, and the lanes are driven to 0
PhasesInOrder ==
    /\ \A i, j \in WriteIdx :
          (i < j /\ BringUpPhase(i) # 0 /\ BringUpPhase(j) # 0) =>
             BringUpPhase(i) <= BringUpPhase(j)
    /\ \A i \in WriteIdx :
          (\A h \in WriteIdx : h >= i) =>
             (IsWr(log[i], TC358768_SYSCTL) /\ log[i].val = 1)
    /\ \A i \in PhaseIdx(1) :
          log[i].val = IF \E h \in PhaseIdx(1) : h < i THEN 0 ELSE 1
    /\ Cardinality(PhaseIdx(1)) <= 2
    /\ \A i \in PhaseIdx(3) : log[i].val = 0

\* a fault-free enable after a successful solve
CleanEnable == op = "enable" /\ ret = 0 /\ AllOk

\* C11 (as claimed): in a fault-free successful enable the writes follow the
\* phase order reset, PLL, D-PHY lanes, PPI timing, exit-sleep command,
\* back-channel timing and start, pixel-pipe enable write, and a completed
\* one has made the writes of every phase.
C11_PhaseOrderAllWritten ==
    CleanEnable =>
        /\ PhasesInOrder
        /\ Completed => \A p \in 1 .. 7 : PhaseIdx(p) # {}

\* C11 (amended): as claimed for the phases 1 to 6; the pixel-pipe enable
\* comes last as an access of CONFCTL after every write of the phases 1 to
\* 6: a read, followed by the write setting bit 6 exactly when the read
\* returned the bit clear; the completed enable leaves the bit set.
C11_PhaseOrder ==
    CleanEnable =>
        /\ PhasesInOrder
        /\ Completed =>
              /\ \A p \in 1 .. 6 : PhaseIdx(p) # {}
              /\ \E h \in DOMAIN log :
                    /\ IsRd(log[h], TC358768_CONFCTL)
                    /\ \A i \in WriteIdx : BringUpPhase(i) \in 1 .. 6 => i < h
                    /\ Bit(log[h].val, 6) = 0 <=> h + 1 \in PhaseIdx(7)
                    /\ PhaseIdx(7) \subseteq {h + 1}
              /\ Bit(dev[TC358768_CONFCTL], 6) = 1

\* C11 witness: a fault-free enable has completed with the pixel-pipe
\* enable write as its last power-on write
C11_Witness ==
    /\ CleanEnable /\ Completed
    /\ PhaseIdx(7) # {}

\* low-half and high-half transactions of the DSI_CONFW writes
ConfwLow == {i \in WriteIdx : log[i].reg = TC358768_DSI_CONFW}

ConfwHigh == {i \in WriteIdx : log[i].reg = TC358768_DSI_CONFW + 2}

C13_ConfwInTimingPhase ==
    op = "enable" =>
        \A i \in ConfwLow :
            /\ \E j \in PhaseIdx(3) : j < i
            /\ \A j \in PhaseIdx(3) : j < i
            /\ \A j \in PhaseIdx(5) : i < j
            /\ \A j \in PhaseIdx(6) : i < j

\* ------------------------------------------------------------------------
\* Phases of the teardown, read from the log
\* ------------------------------------------------------------------------
\* entry i is a write that follows the successful read of its register and
\* changes bit b of the value read to v
SetsBit(i, reg, b, v) ==
    /\ i > 1
    /\ IsWr(log[i], reg) /\ Bit(log[i].val, b) = v
    /\ IsRd(log[i - 1], reg) /\ log[i - 1].ok
    /\ Bit(log[i - 1].val, b) # v

FrameStopIdx == {i \in DOMAIN log : SetsBit(i, TC358768_PP_MISC, 15, 1)}

PipeOffIdx == {i \in DOMAIN log : SetsBit(i, TC358768_CONFCTL, 6, 0)}

PointerResetIdx == {i \in DOMAIN log : SetsBit(i, TC358768_PP_MISC, 14, 1)}

GpioIdx(v) == {i \in DOMAIN log : log[i].k = "gpio" /\ log[i].val = v}

\* C14: in every disable the write setting FrmStop comes before the write
\* clearing PP_en, which comes before the write setting RstPtr, each made at
\* most once; the reset line is driven low only as the last step, after
\* every bus transaction, and only when a line is present; a completed
\* disable on which no transaction has ever failed has made all three writes
\* and, with a line present, driven it low.
C14_TeardownOrder ==
    op = "disable" =>
        /\ \A i \in FrameStopIdx : \A j \in PipeOffIdx : i < j
        /\ \A i \in PipeOffIdx : \A j \in PointerResetIdx : i < j
        /\ \A i \in FrameStopIdx : \A j \in PointerResetIdx : i < j
        /\ Cardinality(FrameStopIdx) <= 1
        /\ Cardinality(PipeOffIdx) <= 1
        /\ Cardinality(PointerResetIdx) <= 1
        /\ GpioIdx(1) = {}
        /\ \A g \in GpioIdx(0) :
              /\ g = Len(log) /\ Completed
              /\ entry.gpio # -1
              /\ \A i \in DOMAIN log : IsBus(log[i]) => i < g
        /\ (Completed /\ faults = 0) =>
              /\ FrameStopIdx # {} /\ PipeOffIdx # {}
              /\ PointerResetIdx # {}
              /\ entry.gpio # -1 => (GpioIdx(0) # {} /\ gpio = 0)

\* C14 witness: a disable with a reset line has made the three teardown
\* writes and driven the line low
C14_Witness ==
    /\ op = "disable" /\ Completed
    /\ FrameStopIdx # {} /\ PipeOffIdx # {} /\ PointerResetIdx # {}
    /\ GpioIdx(0) # {}

\* ------------------------------------------------------------------------
\* The register access layer alone: tc358768_write, tc358768_read and
\* tc358768_update_bits called on one register address of a device whose
\* 16-bit cells behave as memory.  Here op is the last call made, log the
\* transactions of that call, ret its return value and entry its arguments,
\* the cells before it and *val of the last read.
\* ------------------------------------------------------------------------
\* addresses around the two width thresholds and inside the three regions
RegAddrs ==
    {TC358768_CONFCTL, 255, 256, TC358768_DSI_CONFW, 1535, 1536}

\* 0xA30000A7 and 0x0001FFFF
RegVals == {<<167, 41728, 0, 0>>, <<65535, 1, 0, 0>>}

\* 1 << 6 and 0x0001C000
RegMasks == {<<64, 0, 0, 0>>, <<49152, 1, 0, 0>>}

\* new bits for update_bits: none, and 0x00018040
RegBits == {ZERO, <<32832, 1, 0, 0>>}

\* *val before any read has stored to it
NoValue == <<43690, 43690, 0, 0>>

RegEntry(reg, mask, val, mem, out) ==
    [d |-> NoData, gpio |-> -1, reg |-> reg, mask |-> mask, val |-> val,
     dev |-> mem, out |-> out]

InitReg ==
    /\ ddata = NoData
    /\ gpio = -1
    /\ \E a \in RegAddrs :
          /\ dev \in {(a :> 0 @@ (a + 2) :> 0), (a :> 68 @@ (a + 2) :> 32768)}
          /\ entry = RegEntry(a, ZERO, ZERO, dev, NoValue)
    /\ op = "idle"
    /\ todo = <<>>
    /\ log = <<>>
    /\ faults = 0
    /\ ret = 0
    /\ bound = FALSE

\* r = tc358768_write(ddata, reg, val)
RegWrite(val) ==
    /\ \E o \in tc358768_write(entry.reg, val, faults < MaxFaults) :
          /\ log' = o.txs
          /\ dev' = Store(dev, o.txs)
          /\ faults' = faults + Failed(o.txs)
          /\ ret' = o.r
    /\ entry' = RegEntry(entry.reg, ZERO, val, dev, entry.out)
    /\ op' = "write"
    /\ UNCHANGED <<ddata, gpio, todo, bound>>

\* r = tc358768_read(ddata, reg, &val)
RegRead ==
    /\ \E o \in tc358768_read(dev, entry.reg, faults < MaxFaults) :
          /\ log' = o.txs
          /\ faults' = faults + Failed(o.txs)
          /\ ret' = o.r
          /\ entry' = RegEntry(entry.reg, ZERO, ZERO, dev,
                               IF o.r = 0 THEN o.val ELSE entry.out)
    /\ op' = "read"
    /\ UNCHANGED <<ddata, gpio, dev, todo, bound>>

\* r = tc358768_update_bits(ddata, reg, mask, val)
RegUpdateBits(mask, val) ==
    /\ \E o \in tc358768_update_bits(dev, entry.reg, mask, val,
                                     faults < MaxFaults) :
          /\ log' = o.txs
          /\ dev' = Store(dev, o.txs)
          /\ faults' = faults + Failed(o.txs)
          /\ ret' = o.r
    /\ entry' = RegEntry(entry.reg, mask, val, dev, entry.out)
    /\ op' = "update_bits"
    /\ UNCHANGED <<ddata, gpio, todo, bound>>

NextReg ==
    \/ \E v \in RegVals : RegWrite(v)
    \/ RegRead
    \/ \E m \in RegMasks, v \in RegBits : RegUpdateBits(m, v)

SpecReg == InitReg /\ [][NextReg]_vars

\* the last call of the access layer returned 0
RegDone(k) == op = k /\ ret = 0

\* C15: a successful write or read of address a is one transaction at a
\* when a < 0x100 or a >= 0x600, and otherwise two: at a with the low 16
\* bits, then at a + 2 with the high 16 bits; 0x100 and 0x5FF take two
\* transactions, 0x0FF and 0x600 one.
C15_RegisterWidth ==
    (RegDone("write") \/ RegDone("read")) =>
        LET a == entry.reg
            w == op = "write"
        IN  /\ \A i \in DOMAIN log :
                  log[i].ok /\ log[i].k = (IF w THEN "wr16" ELSE "rd16")
            /\ IF a < 256 \/ a >= 1536
               THEN /\ Len(log) = 1
                    /\ log[1].reg = a
                    /\ log[1].val = (IF w THEN entry.val[1] ELSE entry.dev[a])
               ELSE /\ Len(log) = 2
                    /\ log[1].reg = a /\ log[2].reg = a + 2
                    /\ log[1].val = (IF w THEN entry.val[1] ELSE entry.dev[a])
                    /\ log[2].val = (IF w THEN entry.val[2]
                                          ELSE entry.dev[a + 2])
            /\ a \in {256, 1535} => Len(log) = 2
            /\ a \in {255, 1536} => Len(log) = 1

\* C15 witness: a write of 0xA30000A7 to 0x5FF has gone out as two
\* transactions
C15_Witness ==
    /\ RegDone("write")
    /\ entry.reg = 1535
    /\ Len(log) = 2 /\ log[2].val = 41728

\* C16: when a successful write(a, v) is followed by a successful read(a),
\* the read stores v for a 32-bit-wide address a and v mod 2^16 for a
\* 16-bit-wide one.
C16_WriteThenRead ==
    [][ (RegDone("write") /\ op' = "read" /\ ret' = 0) =>
           entry'.out = (IF entry.reg < 256 \/ entry.reg >= 1536
                         THEN <<entry.val[1], 0, 0, 0>>
                         ELSE <<entry.val[1], entry.val[2], 0, 0>>) ]_vars

\* C16 witness: a read of the 32-bit-wide address 0x100 has returned
\* 0xA30000A7, which only a write of that value stores there
C16_Witness ==
    /\ RegDone("read")
    /\ entry.reg = 256
    /\ entry.out = <<167, 41728, 0, 0>>

\* bit k (0 .. 31) of a 32-bit value
LimbBit(v, k) == (v[(k \div 16) + 1] \div 2^(k % 16)) % 2

\* the register at the address under test as the cells mem hold it
RegValue(mem) ==
    IF entry.reg < 256 \/ entry.reg >= 1536
    THEN <<mem[entry.reg], 0, 0, 0>>
    ELSE <<mem[entry.reg], mem[entry.reg + 2], 0, 0>>

RegBitsOf == IF entry.reg < 256 \/ entry.reg >= 1536 THEN 0 .. 15 ELSE 0 .. 31

\* bit k of (orig & ~mask) | (val & mask) for the last update_bits call
UpdatedBit(k) ==
    IF LimbBit(entry.mask, k) = 1 THEN LimbBit(entry.val, k)
    ELSE LimbBit(RegValue(entry.dev), k)

\* C17: after a successful update_bits(a, mask, val) every bit of the
\* register is the bit of val where mask is set and its previous value
\* elsewhere; the call has issued a write if and only if
\* (orig & ~mask) | (val & mask) differs from the value read, and otherwise
\* nothing but the read.
C17_UpdateBits ==
    RegDone("update_bits") =>
        LET differs == \E k \in 0 .. 31 :
                          UpdatedBit(k) # LimbBit(RegValue(entry.dev), k)
        IN  /\ \A k \in RegBitsOf : LimbBit(RegValue(dev), k) = UpdatedBit(k)
            /\ \A k \in RegBitsOf :
                  LimbBit(entry.mask, k) = 0 =>
                     LimbBit(RegValue(dev), k) =
                        LimbBit(RegValue(entry.dev), k)
            /\ (\E i \in DOMAIN log : log[i].k = "wr16") <=> differs
            /\ \E i \in DOMAIN log : log[i].k = "rd16"
            /\ \A i, j \in DOMAIN log :
                  (log[i].k = "rd16" /\ log[j].k = "wr16") => i < j

\* C17 witness: an update has changed bits 14..16 of a 32-bit-wide register
\* holding 0x80000044 and written the result
C17_Witness ==
    /\ RegDone("update_bits")
    /\ entry.reg = TC358768_DSI_CONFW
    /\ entry.mask = <<49152, 1, 0, 0>>
    /\ RegValue(entry.dev) = <<68, 32768, 0, 0>>
    /\ RegValue(dev) = <<32836, 32769, 0, 0>>
    /\ Len(log) = 4

\* C18: in every call of the access layer a failed transaction is the last
\* one the call issues and the call returns its error, so a failed read in
\* update_bits is followed by no write and a failed low half by no high
\* half; the call returns 0 only when no transaction failed; no transaction
\* is issued twice; and a failed read stores no value and changes no cell.
C18_ErrorsPropagate ==
    /\ [](op \in {"write", "read", "update_bits"} =>
            /\ \A i \in DOMAIN log : ~log[i].ok => i = Len(log)
            /\ (\E i \in DOMAIN log : ~log[i].ok) <=> ret # 0
            /\ ret \in {0, -EIO}
            /\ \A i, j \in DOMAIN log :
                  (i < j /\ log[i].k = log[j].k) => log[i].reg # log[j].reg
            /\ (op = "update_bits" /\
                (\E i \in DOMAIN log : log[i].k = "rd16" /\ ~log[i].ok)) =>
                  \A i \in DOMAIN log : log[i].k # "wr16")
    /\ [][ (op' = "read" /\ ret' # 0) =>
              (entry'.out = entry.out /\ dev' = dev) ]_vars

\* C18 witness: a write of a 32-bit-wide register has stopped at its failed
\* low half and returned the error
C18_Witness ==
    /\ op = "write"
    /\ entry.reg = TC358768_DSI_CONFW
    /\ Len(log) = 1 /\ ~log[1].ok
    /\ ret = -EIO

\* ------------------------------------------------------------------------
\* The short-packet helper alone: tc358768_dsi_xfer_short called with u8
\* arguments.  Here entry holds the arguments of the call, op is "xfer"
\* while the call runs and "returned" after it, ret is what it returned.
\* ------------------------------------------------------------------------
\* data ids: the three the driver uses, and the extremes of u8
XferIds ==
    {0, MIPI_DSI_DCS_SHORT_WRITE, MIPI_DSI_DCS_SHORT_WRITE_PARAM,
     MIPI_DSI_TURN_ON_PERIPHERAL, 255}

\* first payload byte
XferData0 == {0, MIPI_DCS_EXIT_SLEEP_MODE, MIPI_DCS_SET_PIXEL_FORMAT, 255}

\* second payload byte
XferData1 == {0, MIPI_DCS_PIXEL_FMT_24BIT, 255}

InitXfer ==
    /\ ddata = NoData
    /\ gpio = -1
    /\ dev \in DevInits
    /\ op = "idle"
    /\ todo = <<>>
    /\ log = <<>>
    /\ faults = 0
    /\ ret = 0
    /\ entry = [d |-> NoData, gpio |-> -1, id |-> 0, data0 |-> 0, data1 |-> 0]
    /\ bound = FALSE

\* tc358768_dsi_xfer_short(ddata, data_id, data0, data1) is called
XferCall(data_id, data0, data1) ==
    /\ op \in {"idle", "returned"}
    /\ op' = "xfer"
    /\ todo' = tc358768_dsi_xfer_short(data_id, data0, data1)
    /\ entry' = [d |-> NoData, gpio |-> -1, id |-> data_id,
                 data0 |-> data0, data1 |-> data1]
    /\ log' = <<>>
    /\ UNCHANGED <<ddata, gpio, dev, faults, ret, bound>>

\* one tc358768_write call of the helper; its return value is dropped
XferWrite ==
    /\ op = "xfer"
    /\ todo # <<>>
    /\ Head(todo).k = "write"
    /\ \E o \in tc358768_write(Head(todo).reg, Head(todo).val,
                               faults < MaxFaults) :
          /\ log' = log \o o.txs
          /\ dev' = Store(dev, o.txs)
          /\ faults' = faults + Failed(o.txs)
    /\ todo' = Tail(todo)
    /\ UNCHANGED <<ddata, gpio, op, ret, entry, bound>>

\* return 0
XferReturn ==
    /\ op = "xfer"
    /\ todo = <<>>
    /\ op' = "returned"
    /\ ret' = 0
    /\ UNCHANGED <<ddata, gpio, dev, todo, log, faults, entry, bound>>

NextXfer ==
    \/ \E i \in XferIds, a \in XferData0, b \in XferData1 : XferCall(i, a, b)
    \/ XferWrite
    \/ XferReturn

SpecXfer == InitXfer /\ [][NextXfer]_vars

\* the four writes of a short packet with the arguments of entry
ShortPacket ==
    << [reg |-> TC358768_DSICMD_TYPE, val |-> 16 * 256 + entry.id],
       [reg |-> TC358768_DSICMD_WC, val |-> 0],
       [reg |-> TC358768_DSICMD_WD0, val |-> entry.data1 * 256 + entry.data0],
       [reg |-> TC358768_DSICMD_TX, val |-> 1] >>

\* C19: a call of the short-packet helper issues nothing but register
\* writes: DSICMD_TYPE = (0x10 << 8) | id, DSICMD_WC = 0,
\* DSICMD_WD0 = (data1 << 8) | data0 and DSICMD_TX = 1, in this order, one
\* transaction each; when it returns it has issued exactly these four, the
\* trigger last, with no read and no delay, and it returns 0 whether or not
\* a write failed.
C19_ShortPacket ==
    op \in {"xfer", "returned"} =>
        /\ Len(log) <= 4
        /\ \A i \in DOMAIN log :
              /\ log[i].k = "wr16"
              /\ log[i].reg = ShortPacket[i].reg
              /\ log[i].val = ShortPacket[i].val
        /\ Len(log) + Len(todo) = 4
        /\ op = "returned" =>
              /\ Len(log) = 4
              /\ IsWr(log[4], TC358768_DSICMD_TX)
              /\ ret = 0

\* C19 witness: the helper has returned after sending the packet
\* (0x15, 0x3A, 0x07) with a payload write that failed
C19_Witness ==
    /\ op = "returned"
    /\ entry.id = 21 /\ entry.data0 = 58 /\ entry.data1 = 7
    /\ Len(log) = 4
    /\ ~log[3].ok

\* ------------------------------------------------------------------------
\* Presence and absence of the reset line
\* ------------------------------------------------------------------------
IsGpioCall(c) == c.k = "gpio"

NotGpioCall(c) == c.k # "gpio"

\* d with the reset line present if it is absent, absent if it is present
OtherWiring(d) == [d EXCEPT !.reset_gpio = ~d.reset_gpio]

\* the operation has just been called
JustCalled == op \in {"enable", "disable"} /\ log = <<>> /\ entry.d # NoData

\* C20: with the reset line absent instead of present (and the other way
\* round) the solver returns the same result and solution, so enable returns
\* the same, and enable and disable make the same register and delay calls
\* in the same order; only the reset-line calls differ: none without a line,
\* with a line one in enable (to 1, made only after a successful solve and
\* before everything else) and one in disable (to 0).
C20_ResetLineOptional ==
    /\ (JustCalled /\ op = "enable") =>
          /\ \E res \in {tc358768_calc_pll(OtherWiring(entry.d))} :
                /\ res.r = ret
                /\ res.d = OtherWiring(ddata)
          /\ SelectSeq(todo, NotGpioCall) =
                SelectSeq(tc358768_enable(OtherWiring(ddata), ret),
                          NotGpioCall)
          /\ SelectSeq(todo, IsGpioCall) =
                (IF ddata.reset_gpio /\ ret = 0 THEN <<CallGpio(1)>>
                 ELSE <<>>)
          /\ (ddata.reset_gpio /\ ret = 0) => IsGpioCall(Head(todo))
    /\ (JustCalled /\ op = "disable") =>
          /\ SelectSeq(todo, NotGpioCall) =
                SelectSeq(tc358768_disable(OtherWiring(ddata)), NotGpioCall)
          /\ SelectSeq(todo, IsGpioCall) =
                (IF ddata.reset_gpio THEN <<CallGpio(0)>> ELSE <<>>)
    /\ op \in {"enable", "disable"} =>
          /\ entry.d # NoData => (entry.d.reset_gpio <=> entry.gpio # -1)
          /\ entry.gpio = -1 =>
                (gpio = -1 /\ \A i \in DOMAIN log : log[i].k # "gpio")
          /\ (op = "enable" /\ entry.gpio # -1 /\ ret = 0 /\ log # <<>>) =>
                /\ log[1] = GpioSet(1)
                /\ \A i \in DOMAIN log : log[i].k = "gpio" => i = 1

\* C20 witness: an enable without a reset line has completed its bring-up
\* with success
C20_Witness ==
    /\ op = "enable" /\ Completed /\ ret = 0
    /\ entry.gpio = -1
    /\ PhaseIdx(6) # {}

\* ------------------------------------------------------------------------
\* The clock conversions alone: tc358768_pclk_to_pll applied to one
\* configuration and tc358768_pll_to_pclk to its result.  Here entry holds
\* the configuration (d), the target (pll) and the pixel clock computed back
\* from it (pclk).
\* ------------------------------------------------------------------------
ClkPixelClocks ==
    {1, 7812499, 33500000, 154900000, 154900001, 600000000}

ClkDpiLanes == {16, 18, 24}

ClkDsiLanes == {1, 2, 3, 4}

ClkInputs ==
    { ProbeData([FORTEC EXCEPT !.pixelclock = p, !.dpi_ndl = a,
                               !.dsi_ndl = b], FALSE) :
        p \in ClkPixelClocks, a \in ClkDpiLanes, b \in ClkDsiLanes }

InitClk ==
    /\ ddata \in ClkInputs
    /\ gpio = -1
    /\ dev \in DevInits
    /\ dev[TC358768_CONFCTL] = 4
    /\ dev[TC358768_PP_MISC] = 0
    /\ op = "idle"
    /\ todo = <<>>
    /\ log = <<>>
    /\ faults = 0
    /\ ret = 0
    /\ entry = [d |-> ddata, gpio |-> gpio, pll |-> ZERO, pclk |-> ZERO]
    /\ bound = FALSE

\* tc358768_pll_to_pclk(ddata, tc358768_pclk_to_pll(ddata))
ClkRoundTrip ==
    /\ op = "idle"
    /\ \E t \in {tc358768_pclk_to_pll(ddata)} :
          entry' = [d |-> ddata, gpio |-> gpio, pll |-> t,
                    pclk |-> tc358768_pll_to_pclk(ddata, t)]
    /\ op' = "converted"
    /\ UNCHANGED <<ddata, gpio, dev, todo, log, faults, ret, bound>>

NextClk == ClkRoundTrip

SpecClk == InitClk /\ [][NextClk]_vars

\* 8 * floor(pixelclock * dpi_ndl / (8 * dsi_ndl)), not cut to 32 bits
TargetExact(d) ==
    MulS(DivS(MulS(d.pixelclock, d.dpi_ndl), 8 * d.dsi_ndl), 8)

Fits32(n) == n[3] = 0 /\ n[4] = 0

\* C21: for positive lane counts and a target that fits in 32 bits, the
\* pixel clock computed back from the target is at most the configured one,
\* is short of it by less than 8 * dsi_ndl / dpi_ndl + 1, and equals it when
\* pixelclock * dpi_ndl is a multiple of 8 * dsi_ndl.
C21_ClockRoundTrip ==
    op = "converted" =>
        LET d  == entry.d
            rt == entry.pclk
        IN  (d.dpi_ndl > 0 /\ d.dsi_ndl > 0 /\ Fits32(TargetExact(d))) =>
               /\ ~Lt(d.pixelclock, rt)
               /\ LET short == Sub(d.pixelclock, rt)
                  IN  /\ short[2] = 0 /\ Fits32(short)
                      /\ (short[1] - 1) * d.dpi_ndl < 8 * d.dsi_ndl
               /\ MulS(DivS(MulS(d.pixelclock, d.dpi_ndl), 8 * d.dsi_ndl),
                       8 * d.dsi_ndl) = MulS(d.pixelclock, d.dpi_ndl)
                     => rt = d.pixelclock

\* C21 witness: a conversion has lost to truncation: 7812499 Hz with 24 and
\* 4 lanes comes back as 7812498 Hz
C21_Witness ==
    /\ op = "converted"
    /\ entry.d.pixelclock = FromInt(7812499)
    /\ entry.d.dpi_ndl = 24 /\ entry.d.dsi_ndl = 4
    /\ entry.pclk = FromInt(7812498)

\* the configuration of the FORTEC panel as the solver sees it
IsFortecInput(d) ==
    /\ d.refclk = FromInt(38725000)
    /\ d.pixelclock = FromInt(154900000)
    /\ d.dpi_ndl = 24
    /\ d.dsi_ndl = 4

\* C22: for reference clock 38,725,000, pixel clock 154,900,000, 24 parallel
\* and 4 serial lanes the target is 929,400,000, the solver succeeds with
\* range selector 0, prd = 0, fbd = 23, a frequency of 929,400,000 that lies
\* in [500e6, 1e9), and bitclk = 464,700,000, exactly half of it.
C22_FortecSolution ==
    (op = "solved" /\ IsFortecInput(entry.d)) =>
        LET f == PllExact(ddata.refclk, ddata.prd, ddata.fbd, ddata.frs)
        IN  /\ ret = 0
            /\ tc358768_pclk_to_pll(entry.d) = FromInt(929400000)
            /\ ddata.frs = 0
            /\ ddata.prd = 0
            /\ ddata.fbd = 23
            /\ f = FromInt(929400000)
            /\ Ge(f, FromInt(500000000)) /\ Lt(f, FromInt(1000000000))
            /\ ddata.bitclk = FromInt(464700000)
            /\ MulS(ddata.bitclk, 2) = f

\* C22 witness: the solver has returned for the FORTEC configuration, called
\* with another solution already stored
C22_Witness ==
    /\ op = "solved"
    /\ IsFortecInput(entry.d)
    /\ entry.d.fbd = 95 /\ entry.d.frs = 2
    /\ ddata.fbd = 23

HswIdx == {i \in DOMAIN log : IsWr(log[i], TC358768_DSI_HSW)}

VswIdx == {i \in DOMAIN log : IsWr(log[i], TC358768_DSI_VSW)}

DsiStartIdx == {i \in DOMAIN log : IsWr(log[i], TC358768_DSI_START)}

\* (hsw + hbp) * (bitclk / 4) * dsi_ndl, bitclk / 4 truncated
HswNumerator(d) == MulS(MulS(DivS(d.bitclk, 4), d.hsw + d.hbp), d.dsi_ndl)

\* C23: in every enable a DSI_HSW write carries the truncated quotient of
\* (hsw + hbp) * (bitclk / 4) * dsi_ndl by pixelclock, with bitclk / 4
\* truncated first, and a DSI_VSW write carries vsw + vbp; bitclk is the one
\* the solver stored in this enable, from a ddata that held none; both writes
\* are made once, before the DSI_START write, and have been made when
\* DSI_START is written.
C23_SyncWidths ==
    op = "enable" =>
        /\ \A i \in HswIdx :
              /\ ~Lt(HswNumerator(ddata), MulS(ddata.pixelclock, log[i].val))
              /\ Lt(HswNumerator(ddata),
                    MulS(ddata.pixelclock, log[i].val + 1))
              /\ entry.d.bitclk = ZERO
              /\ ddata.bitclk =
                    DivS(PllCandidate(entry.d.refclk, ddata.prd, ddata.fbd,
                                      ddata.frs), 2)
        /\ \A i \in VswIdx : log[i].val = ddata.vsw + ddata.vbp
        /\ Cardinality(HswIdx) <= 1 /\ Cardinality(VswIdx) <= 1
        /\ \A j \in DsiStartIdx :
              /\ \E i \in HswIdx : i < j
              /\ \E i \in VswIdx : i < j
              /\ \A i \in HswIdx \cup VswIdx : i < j

\* C23 witness: an enable of the FORTEC configuration has written
\* DSI_VSW = 26 and DSI_HSW = 61 * 116175000 * 4 / 154900000 = 183 and then
\* DSI_START
C23_Witness ==
    /\ op = "enable"
    /\ \E i \in VswIdx : log[i].val = 26 /\ log[i].ok
    /\ \E i \in HswIdx : log[i].val = 183 /\ log[i].ok
    /\ DsiStartIdx # {}

\* the registers tc358768_power_off accesses
TeardownRegs == {TC358768_PP_MISC, TC358768_CONFCTL}

CallTxs(mem, c) ==
    IF c.k = "write"
    THEN (CHOOSE o \in tc358768_write(c.reg, c.val, FALSE) : TRUE).txs
    ELSE IF c.k = "update_bits"
    THEN (CHOOSE o \in tc358768_update_bits(mem, c.reg, c.mask, c.val,
                                            FALSE) : TRUE).txs
    ELSE IF c.k = "sleep" THEN <<Delay(ToInt(c.val))>>
    ELSE <<GpioSet(ToInt(c.val))>>

\* the events of the calls lo .. hi of calls, made in order on the cells mem,
\* and the cells they leave (the range is folded by halves to keep the
\* evaluation shallow)
RECURSIVE RunCalls(_, _, _, _)
RunCalls(mem, calls, lo, hi) ==
    IF lo > hi THEN [mem |-> mem, txs |-> <<>>]
    ELSE IF lo = hi
    THEN LET t == CallTxs(mem, calls[lo])
         IN  [mem |-> Store(mem, t), txs |-> t]
    ELSE LET mid == (lo + hi) \div 2
             a   == RunCalls(mem, calls, lo, mid)
         IN  IF a.mem \in {<<>>} THEN a
             ELSE LET b == RunCalls(a.mem, calls, mid + 1, hi)
                  IN  [mem |-> b.mem, txs |-> a.txs \o b.txs]

\* the calls of the operation in flight
OpCalls ==
    IF op = "enable" THEN tc358768_enable(ddata, ret)
    ELSE tc358768_disable(ddata)

\* the events of the calls made so far, had the device held the cells mem
\* when the operation started
EventsOn(mem) == RunCalls(mem, OpCalls, 1, Len(OpCalls) - Len(todo)).txs

\* entry i of txs is the write-back of a read-modify-write
IsWriteBack(txs, i) ==
    /\ i > 1
    /\ txs[i].k = "wr16"
    /\ txs[i - 1].k = "rd16" /\ txs[i - 1].reg = txs[i].reg

\* the register writes of txs, addresses and values
WritesOf(txs) ==
    LET w == SelectSeq([i \in DOMAIN txs |-> txs[i]], IsWrite)
    IN  [i \in DOMAIN w |-> <<w[i].reg, w[i].val>>]

\* txs without the write-backs and without the values the reads returned
ShapeOf(txs) ==
    LET t == [i \in DOMAIN txs |->
                 [k |-> txs[i].k, reg |-> txs[i].reg,
                  val |-> IF txs[i].k = "rd16" THEN 0 ELSE txs[i].val,
                  wb |-> IsWriteBack(txs, i)]]
        Kept(e) == ~e.wb
    IN  SelectSeq(t, Kept)

\* C25 (as claimed): on a fault-free bus the register writes of an enable
\* and of a disable, addresses and values, are those the same calls issue on
\* every other device, whatever its registers hold.
C25_OpenLoopWrites ==
    (op \in {"enable", "disable"} /\ AllOk) =>
        \A m \in DevInits : WritesOf(log) = WritesOf(EventsOn(m))

\* C25 (amended): on a fault-free bus the calls of an enable and of a
\* disable do not depend on what the device returns: the writes of the
\* plain write steps (addresses and values), the register reads
\* (addresses) and the delays are the same on every device; only the
\* write-back of a read-modify-write step depends on the value read, and it
\* is issued only with a value that differs from the value read.
C25_OpenLoopCalls ==
    (op \in {"enable", "disable"} /\ AllOk) =>
        /\ \A m \in DevInits : ShapeOf(log) = ShapeOf(EventsOn(m))
        /\ \A i \in DOMAIN log :
              IsWriteBack(log, i) => log[i].val # log[i - 1].val

\* C25 witness: a fault-free enable has made all its calls and no
\* write-back, the device having returned PP_en set and FrmStop, RstPtr
\* clear
C25_Witness ==
    /\ CleanEnable /\ Completed
    /\ \E i \in DOMAIN log : IsRd(log[i], TC358768_CONFCTL)
    /\ \E i \in DOMAIN log : IsRd(log[i], TC358768_PP_MISC)
    /\ \A i \in DOMAIN log : ~IsWriteBack(log, i)

\* some pair prd in 0..15, fbd in 0..511 gives a candidate
\* refclk * (fbd + 1) / ((prd + 1) * 2^frs) inside the bracket of frs
HasInBracketCandidate(refclk, frs) ==
    \E p \in 0 .. PRD_COUNT - 1 : \E b \in 0 .. FBD_COUNT - 1 :
        InBracket(PllExact(refclk, p, b, frs), frs)

\* C26: when the target lies in a bracket, the solver returns 0 exactly when
\* some pair prd in 0..15, fbd in 0..511 gives a candidate inside that
\* bracket; otherwise it returns -EINVAL and stores nothing.
C26_NoSolution ==
    (op = "solved" /\ FrsSelect(tc358768_pclk_to_pll(entry.d), 0) # -1) =>
        LET frs == FrsSelect(tc358768_pclk_to_pll(entry.d), 0)
        IN  IF HasInBracketCandidate(entry.d.refclk, frs)
            THEN ret = 0
            ELSE ret = -EINVAL /\ ddata = entry.d

\* C26 witness: the solver has failed for a target inside a bracket with a
\* reference clock of 976562 Hz, whose largest candidate, 499,999,744 Hz
\* scaled by the range selector, is just below the bracket
C26_Witness ==
    /\ op = "solved"
    /\ ret = -EINVAL
    /\ FrsSelect(tc358768_pclk_to_pll(entry.d), 0) # -1
    /\ entry.d.refclk = FromInt(976562)

\* d with the stored solution replaced by s
WithPrior(d, s) ==
    [d EXCEPT !.fbd = s.fbd, !.prd = s.prd, !.frs = s.frs,
              !.bitclk = FromInt(s.bitclk)]

\* the solution fields of d
SolutionOf(d) == <<d.fbd, d.prd, d.frs, d.bitclk>>

\* C27: the outcome of the solver is a function of pixel clock, lane counts
\* and reference clock: run on the same configuration with any other stored
\* solution it returns the same value and, on success, stores the same fbd,
\* prd, frs and bitclk; on failure each run leaves what was stored.
C27_SolverDeterministic ==
    op = "solved" =>
        \A s \in PllPriors :
            LET other == tc358768_calc_pll(WithPrior(entry.d, s))
            IN  /\ other.r = ret
                /\ ret = 0 => SolutionOf(other.d) = SolutionOf(ddata)
                /\ ret # 0 => /\ other.d = WithPrior(entry.d, s)
                              /\ ddata = entry.d

\* C27 witness: the solver has replaced a stored solution (fbd 95, frs 2)
\* by the one of a 19.2 MHz reference clock
C27_Witness ==
    /\ op = "solved"
    /\ ret = 0
    /\ entry.d.refclk = FromInt(19200000)
    /\ entry.d.fbd = 95 /\ entry.d.frs = 2
    /\ SolutionOf(ddata) # SolutionOf(entry.d)

\* ------------------------------------------------------------------------
\* The sequencer with its thread running: tc358768_enable and
\* tc358768_disable are synchronous calls on the thread of probe / remove,
\* every call they make (a bus transfer, which succeeds or fails, a sleep, a
\* GPIO write) returns, and so does the operation once its calls are made.
\* ------------------------------------------------------------------------
Step ==
    \/ DoWrite
    \/ DoUpdateBits
    \/ DoSleep
    \/ DoGpio
    \/ EnableReturn
    \/ DisableReturn

SpecLive == Init /\ [][Next]_vars /\ WF_vars(Step)

\* C28: every enable and every disable in flight returns, whether or not
\* transactions fail; the solver's loops cover 16 * 512 = 8192 candidates;
\* every delay requested is at most the 50 ms of the frame wait; every step
\* of an operation in flight makes one of its calls, so none is repeated and
\* none waits.
C28_Terminates ==
    /\ (op \in {"enable", "disable"}) ~> (op = "idle")
    /\ [](/\ PRD_COUNT * FBD_COUNT = 8192
          /\ \A i \in DOMAIN log :
                log[i].k = "delay" => log[i].val \in 1 .. FRAME_WAIT_US)
    /\ [][InFlight => (Len(todo') = Len(todo) - 1 /\ op' = op)]_vars

\* C28 witness: an enable during which a transaction failed has returned
C28_Witness ==
    /\ op = "idle"
    /\ faults = 1
    /\ bound
    /\ log = <<>>

\* writes that set PP_en (CONFCTL bit 6) in a register read with it clear
PipeOnIdx == {i \in DOMAIN log : SetsBit(i, TC358768_CONFCTL, 6, 1)}

\* FrmStop (bit 15) and RstPtr (bit 14) of a PP_MISC value are both 0
StopBitsClear(v) == Bit(v, 15) = 0 /\ Bit(v, 14) = 0

\* C29: in every enable on which no transaction fails, a write that sets
\* CONFCTL bit 6 is made after PP_MISC was read and, unless the read
\* returned bits 15 and 14 both clear, written back with both clear; from
\* that write on the device holds both bits clear, and the completed enable
\* leaves the pixel pipe enabled with both bits clear.
C29_StopBitsClearedFirst ==
    CleanEnable =>
        /\ \A j \in PipeOnIdx :
              \E h \in 1 .. j - 1 :
                  /\ IsRd(log[h], TC358768_PP_MISC)
                  /\ \/ StopBitsClear(log[h].val)
                     \/ /\ IsWr(log[h + 1], TC358768_PP_MISC)
                        /\ StopBitsClear(log[h + 1].val)
                  /\ \A m \in h + 1 .. j :
                        IsWr(log[m], TC358768_PP_MISC) =>
                           StopBitsClear(log[m].val)
        /\ PipeOnIdx # {} => StopBitsClear(dev[TC358768_PP_MISC])
        /\ Completed =>
              /\ Bit(dev[TC358768_CONFCTL], 6) = 1
              /\ StopBitsClear(dev[TC358768_PP_MISC])

\* C29 witness: an enable has found FrmStop and RstPtr set, as a disable
\* leaves them, has cleared them and has then set PP_en
C29_Witness ==
    /\ CleanEnable
    /\ \E h \in DOMAIN log :
          /\ IsRd(log[h], TC358768_PP_MISC) /\ log[h].val = 49152
          /\ \E j \in PipeOnIdx : h < j
    /\ dev[TC358768_PP_MISC] = 0

PllCtl0Idx == {i \in DOMAIN log : IsWr(log[i], TC358768_PLLCTL0)}

\* ddata holds the solution tc358768_calc_pll stored in the enable in
\* flight, which was called with none stored
SolvedInThisCall ==
    /\ ret = 0
    /\ SolutionOf(entry.d) = <<0, 0, 0, ZERO>>
    /\ ddata.frs = FrsSelect(tc358768_pclk_to_pll(entry.d), 0)
    /\ ddata.bitclk =
          DivS(PllCandidate(entry.d.refclk, ddata.prd, ddata.fbd, ddata.frs),
               2)

\* C30: in every enable a PLLCTL0 write carries (prd << 12) | fbd of the
\* solution stored by the solver in this call, with fbd <= 511 in bits 8:0,
\* prd <= 15 in bits 15:12, bits 11:9 clear and the value below 2^16; every
\* PLLCTL1 write carries frs, in 0..3, in bits 11:10 and is below 2^12, and
\* the PLLCTL1 value with the clock output on is the one with it off plus
\* bit 4.
C30_PllRegisterValues ==
    op = "enable" =>
        /\ \A i \in PllCtl0Idx :
              /\ SolvedInThisCall
              /\ ddata.fbd \in 0 .. 511 /\ ddata.prd \in 0 .. 15
              /\ log[i].val = ddata.prd * 2^12 + ddata.fbd
              /\ log[i].val % 2^9 = ddata.fbd
              /\ log[i].val \div 2^12 = ddata.prd
              /\ (log[i].val \div 2^9) % 2^3 = 0
              /\ log[i].val < 2^16
        /\ \A i \in PllClockOn \cup PllClockOff :
              /\ SolvedInThisCall
              /\ ddata.frs \in 0 .. 3
              /\ (log[i].val \div 2^10) % 2^2 = ddata.frs
              /\ log[i].val < 2^12
        /\ \A i \in PllClockOn : \A j \in PllClockOff :
              log[i].val = log[j].val + 2^4

\* C30 witness: an enable of the SEIKO_WVGA configuration has written
\* PLLCTL0 = 95 (prd 0, fbd 95) and PLLCTL1 = 0x0a03 and 0x0a13 (frs 2)
C30_Witness ==
    /\ op = "enable"
    /\ \E i \in PllCtl0Idx : log[i].val = 95 /\ log[i].ok
    /\ \E j \in PllClockOff : log[j].val = 2563
    /\ \E j \in PllClockOn : log[j].val = 2579

\* C31 (as claimed): whenever the solver selects a bracket, the 32-bit target
\* it used equals the exact target 8 * floor(pixelclock * dpi_ndl /
\* (8 * dsi_ndl)), and the solver succeeds only if the exact target is in
\* [62,500,000, 1,000,000,000).
C31_NoWrappedTargetAccepted ==
    op = "solved" =>
        LET t     == tc358768_pclk_to_pll(entry.d)
            exact == TargetExact(entry.d)
        IN  /\ FrsSelect(t, 0) # -1 => exact = t
            /\ ret = 0 => /\ Ge(exact, FromInt(62500000))
                          /\ Lt(exact, FromInt(1000000000))

\* transactions after which the device holds FrmStop set: a successful
\* PP_MISC write with bit 15 set, or a successful PP_MISC read returning it
FrameStopEffective ==
    {i \in DOMAIN log :
        /\ log[i].ok
        /\ IsWr(log[i], TC358768_PP_MISC) \/ IsRd(log[i], TC358768_PP_MISC)
        /\ Bit(log[i].val, 15) = 1}

\* C32 (as claimed): in every disable, with or without failed transactions,
\* a successful CONFCTL write that clears PP_en comes after a transaction
\* that left FrmStop set on the device (a successful write of it, or a
\* successful read returning it set), with at least 50 ms of requested delay
\* between the two.
C32_EffectiveFrameStop ==
    op = "disable" =>
        \A j \in PipeDisableWrites :
            log[j].ok =>
                \E i \in FrameStopEffective :
                    i < j /\ DelayBetween(i, j) >= FRAME_WAIT_US

\* the events of one more tc358768_disable made on the device as it is
DisableAgain ==
    RunCalls(dev, tc358768_disable(ddata), 1,
             Len(tc358768_disable(ddata))).txs

\* C33: as long as no transaction has failed, a successful enable that has
\* made all its calls, and the bound driver after it, leave CONFCTL bit 6
\* set and PP_MISC bits 15 and 14 clear; a disable that has made all its
\* calls leaves CONFCTL bit 6 clear and PP_MISC bits 15 and 14 set, so that
\* one more disable on that device would read PP_MISC, CONFCTL and PP_MISC
\* and write no register.
C33_PipeStateAfterOperation ==
    faults = 0 =>
        /\ ((op = "enable" /\ Completed /\ ret = 0) \/ (op = "idle" /\ bound))
              => /\ Bit(dev[TC358768_CONFCTL], 6) = 1
                 /\ StopBitsClear(dev[TC358768_PP_MISC])
        /\ (op = "disable" /\ Completed)
              => /\ Bit(dev[TC358768_CONFCTL], 6) = 0
                 /\ Bit(dev[TC358768_PP_MISC], 15) = 1
                 /\ Bit(dev[TC358768_PP_MISC], 14) = 1
                 /\ \A i \in DOMAIN DisableAgain : ~IsWrite(DisableAgain[i])
                 /\ Cardinality({i \in DOMAIN DisableAgain :
                                    DisableAgain[i].k = "rd16"}) = 3

\* C33 witness: a disable on which nothing failed has made all its calls,
\* having set FrmStop and RstPtr and cleared PP_en itself
C33_Witness ==
    /\ op = "disable" /\ Completed
    /\ faults = 0
    /\ FrameStopIdx # {} /\ PipeOffIdx # {} /\ PointerResetIdx # {}
    /\ dev[TC358768_CONFCTL] = 4 /\ dev[TC358768_PP_MISC] = 49152

\* the header writes of the short commands, and the transfer triggers
CmdTypeIdx == {i \in DOMAIN log : IsWr(log[i], TC358768_DSICMD_TYPE)}

CmdTxIdx == {i \in DOMAIN log : IsWr(log[i], TC358768_DSICMD_TX)}

\* the place of the command whose header is entry h among the commands
CmdRank(h) == Cardinality({g \in CmdTypeIdx : g <= h})

\* data id and payload word (data1 << 8) | data0 of the three commands of
\* tc358768_enable, in order
EnableCommands ==
    << <<MIPI_DSI_DCS_SHORT_WRITE, MIPI_DCS_EXIT_SLEEP_MODE>>,
       <<MIPI_DSI_TURN_ON_PERIPHERAL, 0>>,
       <<MIPI_DSI_DCS_SHORT_WRITE_PARAM,
         MIPI_DCS_PIXEL_FMT_24BIT * 2^8 + MIPI_DCS_SET_PIXEL_FORMAT>> >>

\* the entries h .. h + 3, as far as they are logged, are the four writes of
\* the short command c
IsCommandAt(h, c) ==
    /\ log[h].val = 16 * 2^8 + c[1]
    /\ h + 1 <= Len(log) =>
          IsWr(log[h + 1], TC358768_DSICMD_WC) /\ log[h + 1].val = 0
    /\ h + 2 <= Len(log) =>
          IsWr(log[h + 2], TC358768_DSICMD_WD0) /\ log[h + 2].val = c[2]
    /\ h + 3 <= Len(log) =>
          IsWr(log[h + 3], TC358768_DSICMD_TX) /\ log[h + 3].val = 1

BusIdx == {i \in DOMAIN log : IsBus(log[i])}

\* C34: an enable whose solver succeeded issues at most three short
\* commands, and exactly three once it has made all its calls: first
\* exit-sleep (data id 0x05, EXIT_SLEEP_MODE, 0), after every PPI timing
\* write and before every back-channel timing / transmitter start write;
\* then turn-on-peripheral (0x32, 0, 0) and set-pixel-format (0x15, 0x3A,
\* 24 bit), both after the CONFCTL access that enables the pixel pipe and
\* after its write; each command is the four writes type, word count,
\* payload, trigger, and each trigger belongs to one of them.  A CONFCTL
\* write is therefore followed by further register writes, and at least
\* 1 ms of delay lies between the start of the enable, where the reset line
\* is driven high if there is one, and the first bus transaction.
C34_ThreeShortCommands ==
    (op = "enable" /\ ret = 0) =>
        /\ Cardinality(CmdTypeIdx) <= 3
        /\ Completed => Cardinality(CmdTypeIdx) = 3
        /\ \A h \in CmdTypeIdx : IsCommandAt(h, EnableCommands[CmdRank(h)])
        /\ \A t \in CmdTxIdx : t - 3 \in CmdTypeIdx
        /\ \A h \in CmdTypeIdx :
              IF CmdRank(h) = 1
              THEN /\ PhaseIdx(4) # {}
                   /\ \A j \in PhaseIdx(4) : j < h
                   /\ \A j \in PhaseIdx(6) : h + 3 < j
              ELSE /\ \E c \in 1 .. h - 1 : IsRd(log[c], TC358768_CONFCTL)
                   /\ \A j \in DOMAIN log :
                         (IsWr(log[j], TC358768_CONFCTL)
                          \/ IsRd(log[j], TC358768_CONFCTL)) => j < h
        /\ Completed =>
              \A j \in DOMAIN log :
                  IsWr(log[j], TC358768_CONFCTL) =>
                     \E w \in WriteIdx : w > j
        /\ \A g \in GpioIdx(1) : g = 1 /\ entry.gpio # -1
        /\ (entry.gpio # -1 /\ log # <<>>) => GpioIdx(1) = {1}
        /\ \A w \in BusIdx : DelayIn(1, w - 1) >= 1000

\* C34 witness: an enable with a reset line has made all its calls: the
\* line driven high, the pixel pipe enabled by a CONFCTL write, and three
\* commands triggered
C34_Witness ==
    /\ op = "enable" /\ ret = 0 /\ Completed
    /\ GpioIdx(1) = {1}
    /\ PipeOnIdx # {}
    /\ Cardinality(CmdTxIdx) = 3
    /\ \E h \in CmdTypeIdx :
          CmdRank(h) = 3 /\ log[h + 2].val = 7 * 256 + 58
====
